---- MODULE Spec2Model ----
(***************************************************************************)
(* Queue simulation and objective function of the shift-schedule panel:    *)
(* turnos_para_escala_por_hora, simular_fila_eventos and avaliar_turnos of *)
(* fo_v2.py; the scenario generator of parametros_v3.py; the archive       *)
(* loader of otimos_io.py and the evaluation calls of painel_utils.py.     *)
(*                                                                         *)
(* Times are the values numpy holds in float minutes; they are kept here   *)
(* as exact fractions [num, den] of a minute and compared by cross         *)
(* multiplication.  Money is kept in whole currency units.                 *)
(***************************************************************************)
EXTENDS Integers, Sequences, FiniteSets, TLC

VARIABLES
    pc,                       \* position inside the evaluation
    horas,                    \* horas: the hours of the operating window
    turnos,                   \* turnos: tier -> list of [inicio, quantidade]
    escala_por_hora,          \* tier -> headcount per hour index
    produtividade_tipos,      \* tier -> productivity, in 1/ProdDen customers per hour
    arrival_times_min,        \* arrival times in minutes since opening
    capacidade_por_hora,      \* service capacity per hour index
    custo_total_folha,        \* labor cost
    service_times_min,        \* the service slots of the day
    service_times_client_min, \* slot given to each arrival (NaN: none), filled up to i
    entrada,                  \* the function the caller entered
    clientes_por_hora,        \* customers drawn for each hour
    i,                        \* arrivals processed so far (loop index of the FIFO pass)
    j,                        \* slot pointer
    sim,                      \* what simular_fila_eventos returns
    resultado,                \* what avaliar_turnos returns (FOResultado)
    rng,                      \* the process-wide state of numpy's random generator
    arquivo,                  \* what solucoes_otimas.json holds on disk
    chamada,                  \* the last call the panel made
    retorno,                  \* what that call returned, or the error it raised
    geradas,                  \* log of the scenario data generated so far, with their keys
    avaliadas,                \* log of the evaluations made so far: key, schedule, arrivals, score
    geracoes,                 \* key -> number of runs of gerar_dados_cenario
    leituras,                 \* number of times the archive file was opened
    num_chamadas,             \* calls made so far
    threads,                  \* thread -> position and locals of a concurrent call
    scenario_key,             \* the scenario chosen in the sidebar when the script last ran
    session_state             \* st.session_state: the keys the script keeps between runs

vars_fo == <<pc, horas, turnos, escala_por_hora, produtividade_tipos, arrival_times_min,
             capacidade_por_hora, custo_total_folha, service_times_min,
             service_times_client_min, entrada, clientes_por_hora, i, j, sim, resultado>>

vars_passos == <<pc, horas, turnos, escala_por_hora, arrival_times_min,
                 capacidade_por_hora, custo_total_folha, service_times_min,
                 service_times_client_min, entrada, clientes_por_hora, i, j, sim, resultado>>

vars_painel == <<rng, arquivo, chamada, retorno, geradas, avaliadas, geracoes, leituras,
                 num_chamadas, threads>>

vars_sessao == <<scenario_key, session_state>>

vars == <<vars_fo, vars_painel, vars_sessao>>

----------------------------------------------------------------------------
(* Bounds of the model *)

NumHoras == 3          \* hours of the window when a schedule of shifts is evaluated
NumHorasSim == 2       \* hours of the window when the simulation is called on a headcount table
MaxFunc == 1           \* largest headcount of one tier in one hour of a headcount table
MaxQuantidade == 1     \* largest quantidade of one shift
MaxChegadas == 2       \* largest number of arrivals handed to the simulation directly
NumOffsets == 4        \* arrival minutes inside an hour: 0, 5, .., 5*(NumOffsets-1)
MaxClientes == 3       \* largest number of customers drawn for one hour of a scenario
MaxBase == 1           \* largest base headcount of one tier
MaxExtra == 1          \* largest extra_max_total
duracao_turno_horas == 2  \* the shift length handed to avaliar_turnos
NumHorasPainel == 2    \* hours of the window of the scenarios of the panel
MaxSorteio == 2        \* largest number of customers one Poisson draw gives
RngMod == 8            \* states of the random generator
MaxChamadas == 3       \* calls made in one session of the panel
NumThreads == 2        \* calls running at the same time
MaxFuncId == 4         \* workers added in one session of the panel

(* Program constants *)

HoraInicio == 9
PENALIDADE_POR_CLIENTE == 1000
LIMITE_ESPERA_MIN == 10
FatorPenalFuncExtra == 10
TicketMedio == 120      \* ticket_medio of the first scenario
ProdDen == 2           \* productivities are written in halves of a customer per hour

TIPOS == {"junior", "pleno", "senior"}

PRODUTIVIDADE_TIPOS == [t \in TIPOS |->
    IF t = "junior" THEN 2 * ProdDen ELSE IF t = "pleno" THEN 5 * ProdDen ELSE 10 * ProdDen]

CUSTO_HORA_TIPOS == [t \in TIPOS |->
    IF t = "junior" THEN 30 ELSE IF t = "pleno" THEN 50 ELSE 70]

----------------------------------------------------------------------------
(* Helpers on sequences and times *)

RECURSIVE SeqSum(_)
SeqSum(s) == IF s = <<>> THEN 0 ELSE Head(s) + SeqSum(Tail(s))

RECURSIVE Concat(_)
Concat(ss) == IF ss = <<>> THEN <<>> ELSE Head(ss) \o Concat(Tail(ss))

Zeros(T) == [t \in 1..T |-> 0]

Min2(a, b) == IF a < b THEN a ELSE b
Max2(a, b) == IF a > b THEN a ELSE b

(* A time of num/den minutes. *)
Tempo(n, d) == [num |-> n, den |-> d]
Minutos(m) == Tempo(m, 1)
Menor(a, b) == a.num * b.den < b.num * a.den
MenorIgual(a, b) == a.num * b.den <= b.num * a.den

(* NaN marks an arrival that has no slot (np.nan in service_times_client_min). *)
NaN == Tempo(0, 0)
IsNaN(x) == x.den = 0

(* np.linspace(inicio_min, inicio_min + 60, n, endpoint=False): its n points. *)
Linspace(inicio_min, n) == [k \in 1..n |-> Tempo(inicio_min * n + 60 * (k - 1), n)]

(* np.round(n / d) for n >= 0: to the nearest integer, a half goes to the even one. *)
NpRound(n, d) ==
    LET q == n \div d
        r == n % d
    IN  IF 2 * r < d THEN q
        ELSE IF 2 * r > d THEN q + 1
        ELSE IF q % 2 = 0 THEN q ELSE q + 1

----------------------------------------------------------------------------
(* turnos_para_escala_por_hora *)

(* Variant: a shift overwrites the headcount of the hours it covers. *)
RECURSIVE EscalaDoTipoSobrescreve(_, _, _)
EscalaDoTipoSobrescreve(lista_turnos, hs, dur) ==
    IF lista_turnos = <<>> THEN Zeros(Len(hs))
    ELSE LET turno == Head(lista_turnos)
             resto == EscalaDoTipoSobrescreve(Tail(lista_turnos), hs, dur)
         IN  [t \in 1..Len(hs) |->
                 IF hs[t] >= turno.inicio /\ hs[t] < turno.inicio + dur
                 THEN turno.quantidade ELSE resto[t]]

RECURSIVE EscalaDoTipo(_, _, _)
EscalaDoTipo(lista_turnos, hs, dur) ==
    IF lista_turnos = <<>> THEN Zeros(Len(hs))
    ELSE LET turno == Head(lista_turnos)
             h_ini == turno.inicio
             h_fim == turno.inicio + dur
             resto == EscalaDoTipo(Tail(lista_turnos), hs, dur)
         IN  [t \in 1..Len(hs) |->
                 IF hs[t] >= h_ini /\ hs[t] < h_fim
                 THEN resto[t] + turno.quantidade ELSE resto[t]]

(* Variant: every start hour is first brought into [open, close - dur]. *)
turnos_para_escala_com_clamp(hs, ts, dur) ==
    [tipo \in (DOMAIN ts) \cup TIPOS |->
        IF tipo \in DOMAIN ts
        THEN EscalaDoTipo(
                 [k \in 1..Len(ts[tipo]) |->
                     [inicio |-> Max2(hs[1], Min2(ts[tipo][k].inicio, hs[Len(hs)] + 1 - dur)),
                      quantidade |-> ts[tipo][k].quantidade]],
                 hs, dur)
        ELSE Zeros(Len(hs))]

turnos_para_escala_por_hora(hs, ts, dur) ==
    [tipo \in (DOMAIN ts) \cup TIPOS |->
        IF tipo \in DOMAIN ts THEN EscalaDoTipo(ts[tipo], hs, dur) ELSE Zeros(Len(hs))]

----------------------------------------------------------------------------
(* simular_fila_eventos, part 1: capacity, labor cost and service slots *)

(* escala_por_hora.get(tipo, zeros) *)
EscalaGet(escala, tipo, T) == IF tipo \in DOMAIN escala THEN escala[tipo] ELSE Zeros(T)

RECURSIVE SomaTipos(_, _)
SomaTipos(f, S) ==
    IF S = {} THEN 0 ELSE LET x == CHOOSE y \in S : TRUE IN f[x] + SomaTipos(f, S \ {x})

(* Variant: the products of the tiers are added first and rounded once. *)
CapacidadeArredondaTotal(escala, prod, T) ==
    [t \in 1..T |->
        NpRound(SomaTipos([tipo \in DOMAIN prod |-> EscalaGet(escala, tipo, T)[t] * prod[tipo]],
                          DOMAIN prod),
                ProdDen)]

(* Variant: a tier without productivity works at one customer per hour. *)
CapacidadeTodosTipos(escala, prod, T) ==
    [t \in 1..T |->
        SomaTipos([tipo \in DOMAIN prod \cup DOMAIN escala |->
                      NpRound(EscalaGet(escala, tipo, T)[t]
                                  * (IF tipo \in DOMAIN prod THEN prod[tipo] ELSE ProdDen),
                              ProdDen)],
                  DOMAIN prod \cup DOMAIN escala)]

CapacidadePorHora(escala, prod, T) ==
    [t \in 1..T |->
        SomaTipos([tipo \in DOMAIN prod |->
                      NpRound(EscalaGet(escala, tipo, T)[t] * prod[tipo], ProdDen)],
                  DOMAIN prod)]

(* Variant: each tier overwrites the hourly cost instead of adding to it. *)
CustoFolhaUltimoTipo(escala, custo, T) ==
    SeqSum([t \in 1..T |-> EscalaGet(escala, "senior", T)[t] * custo["senior"]])

CustoTotalFolha(escala, custo, T) ==
    SeqSum([t \in 1..T |->
        SomaTipos([tipo \in DOMAIN custo |-> EscalaGet(escala, tipo, T)[t] * custo[tipo]],
                  DOMAIN custo)])

(* Variant: the slots of a later hour are put in front of those of an earlier one. *)
ServiceTimesInvertido(cap) ==
    Concat([t \in 1..Len(cap) |->
        LET u == Len(cap) + 1 - t
        IN  IF cap[u] <= 0 THEN <<>> ELSE Linspace((u - 1) * 60, cap[u])])

(* Variant: the slots of an hour run up to and including the end of the hour
   (np.linspace with endpoint=True). *)
ServiceTimesComFim(cap) ==
    Concat([t \in 1..Len(cap) |->
        IF cap[t] <= 0 THEN <<>>
        ELSE IF cap[t] = 1 THEN <<Minutos((t - 1) * 60)>>
        ELSE [k \in 1..cap[t] |->
                 Tempo((t - 1) * 60 * (cap[t] - 1) + 60 * (k - 1), cap[t] - 1)]])

ServiceTimes(cap) ==
    Concat([t \in 1..Len(cap) |->
        IF cap[t] <= 0 THEN <<>> ELSE Linspace((t - 1) * 60, cap[t])])

----------------------------------------------------------------------------
(* simular_fila_eventos, part 2: the FIFO pass, one arrival per step *)

(* Variant: a slot at exactly the arrival time is passed over as well. *)
RECURSIVE AvancaSlotsInclusivo(_, _, _)
AvancaSlotsInclusivo(slots, k, a) ==
    IF k < Len(slots) /\ MenorIgual(slots[k + 1], a)
    THEN AvancaSlotsInclusivo(slots, k + 1, a) ELSE k

RECURSIVE AvancaSlots(_, _, _)
AvancaSlots(slots, k, a) ==
    IF k < Len(slots) /\ Menor(slots[k + 1], a) THEN AvancaSlots(slots, k + 1, a) ELSE k

(* Variant: the pointer stays on the slot it has just given. *)
AtribuirPassoSemAvanco(st, slots, a) ==
    LET k == AvancaSlots(slots, st.j, a)
    IN  IF k = Len(slots)
        THEN [j |-> k, dados |-> Append(st.dados, NaN)]
        ELSE [j |-> k, dados |-> Append(st.dados, slots[k + 1])]

(* Variant: after a slot is given the pointer goes back to the first slot. *)
AtribuirPassoRecomeca(st, slots, a) ==
    LET k == AvancaSlots(slots, st.j, a)
    IN  IF k = Len(slots)
        THEN [j |-> k, dados |-> Append(st.dados, NaN)]
        ELSE [j |-> 0, dados |-> Append(st.dados, slots[k + 1])]

(* Variant: when the slots run out the pointer goes back to the first slot. *)
AtribuirPassoVolta(st, slots, a) ==
    LET k == AvancaSlots(slots, st.j, a)
    IN  IF k = Len(slots)
        THEN [j |-> 0, dados |-> Append(st.dados, NaN)]
        ELSE [j |-> k + 1, dados |-> Append(st.dados, slots[k + 1])]

(* One iteration of the loop over arrivals on the pair (slot pointer, slots given).
   The pointer k counts the slots already passed, as j does in the code. *)
AtribuirPasso(st, slots, a) ==
    LET k == AvancaSlots(slots, st.j, a)
    IN  IF k = Len(slots)
        THEN [j |-> k, dados |-> Append(st.dados, NaN)]
        ELSE [j |-> k + 1, dados |-> Append(st.dados, slots[k + 1])]

RECURSIVE AtribuirTodos(_, _, _)
AtribuirTodos(st, slots, chegadas) ==
    IF chegadas = <<>> THEN st
    ELSE AtribuirTodos(AtribuirPasso(st, slots, Head(chegadas)), slots, Tail(chegadas))

(* simular_fila_eventos, part 3: the counts taken from the finished pass *)

NumAtendidos(dados) == Cardinality({n \in 1..Len(dados) : ~IsNaN(dados[n])})
NumNaoAtendidos(dados) == Cardinality({n \in 1..Len(dados) : IsNaN(dados[n])})

(* Variant: a wait of exactly the limit counts as late. *)
AtrasadoInclusivo(slot, a) ==
    /\ ~IsNaN(slot)
    /\ slot.num * a.den - a.num * slot.den >= LIMITE_ESPERA_MIN * slot.den * a.den

(* Variant: an arrival without slot counts as late too. *)
AtrasadoSemMascara(slot, a) ==
    \/ IsNaN(slot)
    \/ slot.num * a.den - a.num * slot.den > LIMITE_ESPERA_MIN * slot.den * a.den

(* espera_min is 0 for an arrival without slot, slot - arrival for the others;
   the arrival is late when espera_min / 60 > limite_espera_horas. *)
Atrasado(slot, a) ==
    /\ ~IsNaN(slot)
    /\ slot.num * a.den - a.num * slot.den > LIMITE_ESPERA_MIN * slot.den * a.den

NumClientesAtrasados(dados, chegadas) ==
    Cardinality({n \in 1..Len(dados) : Atrasado(dados[n], chegadas[n])})

(* simular_fila_eventos, parts 4 and 5: the hourly counts and the queue snapshots *)

(* np.floor(x / 60) of a time x >= 0. *)
HoraDoTempo(x) == x.num \div (60 * x.den)

(* Variant: a served arrival is counted in the hour it arrived in. *)
ClientesAtendidosPorHoraDeChegada(dados, chegadas, T) ==
    [t \in 1..T |->
        Cardinality({n \in 1..Len(dados) :
            ~IsNaN(dados[n]) /\ HoraDoTempo(chegadas[n]) = t - 1})]

(* clientes_atendidos_por_hora: the served arrivals by the hour of their slot. *)
ClientesAtendidosPorHora(dados, chegadas, T) ==
    [t \in 1..T |->
        Cardinality({n \in 1..Len(dados) :
            ~IsNaN(dados[n]) /\ HoraDoTempo(dados[n]) = t - 1})]

(* Variant: an arrival served at exactly the end of the hour has left the queue. *)
FilaFimHoraEstrita(dados, chegadas, T) ==
    [t \in 1..T |->
        Cardinality({n \in 1..Len(chegadas) :
            /\ Menor(chegadas[n], Minutos(t * 60))
            /\ (IsNaN(dados[n]) \/ Menor(Minutos(t * 60), dados[n]))})]

(* fila_fim_hora: chegou_ate_fim & nao_atendidos_ate_fim, counted for every hour. *)
FilaFimHora(dados, chegadas, T) ==
    [t \in 1..T |->
        Cardinality({n \in 1..Len(chegadas) :
            /\ Menor(chegadas[n], Minutos(t * 60))
            /\ (IsNaN(dados[n]) \/ MenorIgual(Minutos(t * 60), dados[n]))})]

FilaInicioHora(fila_fim) ==
    [t \in 1..Len(fila_fim) |-> IF t = 1 THEN 0 ELSE fila_fim[t - 1]]

(* np.cumsum *)
RECURSIVE CumSum(_)
CumSum(s) ==
    IF s = <<>> THEN <<>>
    ELSE LET frente == CumSum(SubSeq(s, 1, Len(s) - 1))
         IN  Append(frente, (IF frente = <<>> THEN 0 ELSE frente[Len(frente)]) + s[Len(s)])

(* The whole simulation as a function of its arguments. *)
Simular(escala, prod, chegadas, T) ==
    LET cap == CapacidadePorHora(escala, prod, T)
        slots == ServiceTimes(cap)
        fim == AtribuirTodos([j |-> 0, dados |-> <<>>], slots, chegadas)
        fila_fim == FilaFimHora(fim.dados, chegadas, T)
    IN  [capacidade_por_hora |-> cap,
         num_atendidos |-> NumAtendidos(fim.dados),
         clientes_nao_atendidos_apos_ultimo_slot |-> NumNaoAtendidos(fim.dados),
         num_clientes_atrasados |-> NumClientesAtrasados(fim.dados, chegadas),
         custo_total_folha |-> CustoTotalFolha(escala, CUSTO_HORA_TIPOS, T),
         clientes_atendidos_por_hora |-> ClientesAtendidosPorHora(fim.dados, chegadas, T),
         fila_inicio_hora |-> FilaInicioHora(fila_fim),
         fila_fim_hora |-> fila_fim,
         backlog_acumulado_por_hora |-> CumSum(fila_fim)]

SimVazio ==
    [capacidade_por_hora |-> <<>>, num_atendidos |-> 0,
     clientes_nao_atendidos_apos_ultimo_slot |-> 0, num_clientes_atrasados |-> 0,
     custo_total_folha |-> 0, clientes_atendidos_por_hora |-> <<>>,
     fila_inicio_hora |-> <<>>, fila_fim_hora |-> <<>>, backlog_acumulado_por_hora |-> <<>>]

----------------------------------------------------------------------------
(* gerar_dados_cenario: the arrivals of a day from the customers of each hour *)

(* Variant: the arrivals of an hour run up to and including the end of the hour. *)
ChegadasComFimDaHora(clientes) ==
    Concat([t \in 1..Len(clientes) |->
        IF clientes[t] <= 0 THEN <<>>
        ELSE IF clientes[t] = 1 THEN <<Minutos((t - 1) * 60)>>
        ELSE [k \in 1..clientes[t] |->
                 Tempo((t - 1) * 60 * (clientes[t] - 1) + 60 * (k - 1), clientes[t] - 1)]])

ChegadasDoCenario(clientes) ==
    Concat([t \in 1..Len(clientes) |->
        IF clientes[t] <= 0 THEN <<>> ELSE Linspace((t - 1) * 60, clientes[t])])

(* arrival_hour_index: the hour index (from 0) of each arrival. *)
IndicesDoCenario(clientes) ==
    Concat([t \in 1..Len(clientes) |-> [k \in 1..clientes[t] |-> t - 1]])

(* An absent value (None); a present value v is <<v>>. *)
None == <<>>

(* numpy's process-wide generator, reduced to RngMod states: np.random.seed puts
   it in a state fixed by the seed, every draw moves it one state on, and the
   value drawn is a function of the state reached and of the rate. *)
Semente(s) == s % RngMod
Prox(x) == (5 * x + 3) % RngMod
Sorteio(x, lam) == (x + lam + 1) % (MaxSorteio + 1)

(* np.random.poisson(lambdas): one draw per hour, in order. *)
RECURSIVE Poisson(_, _)
Poisson(x, lambdas) ==
    IF lambdas = <<>> THEN [rng |-> x, valores |-> <<>>]
    ELSE LET x1 == Prox(x)
             resto == Poisson(x1, Tail(lambdas))
         IN  [rng |-> resto.rng, valores |-> <<Sorteio(x1, Head(lambdas))>> \o resto.valores]

SemDados ==
    [horas |-> <<>>, clientes_por_hora |-> <<>>, arrival_times_min |-> <<>>,
     arrival_hour_index |-> <<>>]

(* Variant: the generator is never seeded; the draws go on from where it stands. *)
gerar_dados_sem_seed(config, x) ==
    IF config.hora_fim <= config.hora_inicio
    THEN [erro |-> "ValueError", rng |-> x, dados |-> SemDados]
    ELSE LET hs == [t \in 1..(config.hora_fim - config.hora_inicio) |->
                       config.hora_inicio + t - 1]
             lambdas == [t \in 1..Len(hs) |->
                            IF hs[t] \in config.horas_pico
                            THEN config.media_pico ELSE config.media_vale]
         IN  IF \E t \in 1..Len(hs) : lambdas[t] < 0
             THEN [erro |-> "ValueError", rng |-> x, dados |-> SemDados]
             ELSE LET p == Poisson(x, lambdas)
                  IN  [erro |-> "", rng |-> p.rng,
                       dados |-> [horas |-> hs, clientes_por_hora |-> p.valores,
                                  arrival_times_min |-> ChegadasDoCenario(p.valores),
                                  arrival_hour_index |-> IndicesDoCenario(p.valores)]]

(* Variant: only a closing hour before the opening hour is refused. *)
gerar_dados_janela_estrita(config, x) ==
    IF config.hora_fim < config.hora_inicio
    THEN [erro |-> "ValueError", rng |-> x, dados |-> SemDados]
    ELSE LET hs == [t \in 1..(config.hora_fim - config.hora_inicio) |->
                       config.hora_inicio + t - 1]
             lambdas == [t \in 1..Len(hs) |->
                            IF hs[t] \in config.horas_pico
                            THEN config.media_pico ELSE config.media_vale]
             x0 == IF config.seed_demanda # None THEN Semente(config.seed_demanda[1]) ELSE x
         IN  IF \E t \in 1..Len(hs) : lambdas[t] < 0
             THEN [erro |-> "ValueError", rng |-> x0, dados |-> SemDados]
             ELSE LET p == Poisson(x0, lambdas)
                  IN  [erro |-> "", rng |-> p.rng,
                       dados |-> [horas |-> hs, clientes_por_hora |-> p.valores,
                                  arrival_times_min |-> ChegadasDoCenario(p.valores),
                                  arrival_hour_index |-> IndicesDoCenario(p.valores)]]

(* gerar_dados_cenario run from generator state x: the error raised (none: ""),
   the generator state it leaves and the data it returns. *)
gerar_dados_cenario(config, x) ==
    IF config.hora_fim <= config.hora_inicio
    THEN [erro |-> "ValueError", rng |-> x, dados |-> SemDados]
    ELSE LET hs == [t \in 1..(config.hora_fim - config.hora_inicio) |->
                       config.hora_inicio + t - 1]
             lambdas == [t \in 1..Len(hs) |->
                            IF hs[t] \in config.horas_pico
                            THEN config.media_pico ELSE config.media_vale]
             x0 == IF config.seed_demanda # None THEN Semente(config.seed_demanda[1]) ELSE x
         IN  IF \E t \in 1..Len(hs) : lambdas[t] < 0
             THEN [erro |-> "ValueError", rng |-> x0, dados |-> SemDados]
             ELSE LET p == Poisson(x0, lambdas)
                  IN  [erro |-> "", rng |-> p.rng,
                       dados |-> [horas |-> hs, clientes_por_hora |-> p.valores,
                                  arrival_times_min |-> ChegadasDoCenario(p.valores),
                                  arrival_hour_index |-> IndicesDoCenario(p.valores)]]

(* The scenario table, with the windows cut to NumHorasPainel hours, the peak in
   the second hour and base teams of MaxBase workers per tier. *)
CENARIOS ==
    [chave \in {"antes_tempestade", "campanha_mkt"} |->
        [hora_inicio |-> HoraInicio,
         hora_fim |-> HoraInicio + NumHorasPainel,
         horas_pico |-> {HoraInicio + 1},
         media_pico |-> IF chave = "antes_tempestade" THEN 18 ELSE 28,
         media_vale |-> IF chave = "antes_tempestade" THEN 8 ELSE 10,
         seed_demanda |-> IF chave = "antes_tempestade" THEN <<101>> ELSE <<202>>,
         base_team_por_tipo |-> [t \in TIPOS |-> MaxBase],
         extra_max_total |-> 0,
         ticket_medio |-> IF chave = "antes_tempestade" THEN TicketMedio ELSE 180]]

(* Configurations the handling of errors is tried on, each derived from the first
   scenario: an empty window, a negative rate, a base team with a tier that has no
   productivity, and no seed. *)
ConfigsDeTeste ==
    [chave \in {"janela_vazia", "taxa_negativa", "tipo_desconhecido", "sem_seed"} |->
        LET c == CENARIOS["antes_tempestade"]
        IN  IF chave = "janela_vazia" THEN [c EXCEPT !.hora_fim = c.hora_inicio]
            ELSE IF chave = "taxa_negativa" THEN [c EXCEPT !.media_vale = 0 - 1]
            ELSE IF chave = "tipo_desconhecido"
                 THEN [c EXCEPT !.base_team_por_tipo =
                          [t \in {"junior", "estagiario"} |-> MaxBase]]
            ELSE [c EXCEPT !.seed_demanda = None]]

(* The scenario table the module is loaded with. *)
TabelaCenarios ==
    [chave \in DOMAIN CENARIOS \cup DOMAIN ConfigsDeTeste |->
        IF chave \in DOMAIN CENARIOS THEN CENARIOS[chave] ELSE ConfigsDeTeste[chave]]

(* carregar_cenario *)
carregar_cenario(chave, x) ==
    IF chave \notin DOMAIN TabelaCenarios
    THEN [erro |-> "KeyError", rng |-> x, dados |-> SemDados]
    ELSE gerar_dados_cenario(TabelaCenarios[chave], x)

----------------------------------------------------------------------------
(* otimos_io.carregar_turnos_otimos: the entry of the archive, or None *)

carregar_turnos_otimos(arq, cenario_key, metodo_preferido) ==
    IF arq.estado # "ok" THEN None
    ELSE IF cenario_key \notin DOMAIN arq.dados THEN None
    ELSE IF metodo_preferido \notin DOMAIN arq.dados[cenario_key] THEN None
    ELSE <<arq.dados[cenario_key][metodo_preferido]>>

----------------------------------------------------------------------------
(* Inputs *)

Janela(T) == [t \in 1..T |-> HoraInicio + t - 1]

MEIA_PRODUTIVIDADE == [t \in TIPOS |-> PRODUTIVIDADE_TIPOS[t] \div 2]
TabelasProdutividade == {PRODUTIVIDADE_TIPOS, MEIA_PRODUTIVIDADE}

TemposChegada(T) == {Minutos((t - 1) * 60 + 5 * k) : t \in 1..T, k \in 0..(NumOffsets - 1)}

SeqsAte(S, n) == UNION {[1..m -> S] : m \in 0..n}

(* Customers per hour of the arrivals by the hour their time falls in. *)
ContagemPorHora(chegadas, T) ==
    [t \in 1..T |-> Cardinality({n \in 1..Len(chegadas) :
        /\ chegadas[n].num >= (t - 1) * 60 * chegadas[n].den
        /\ chegadas[n].num < t * 60 * chegadas[n].den})]

(* One tier of a schedule: no entry, or one shift. *)
InicioSet(T) == (HoraInicio - 1)..(HoraInicio + T - duracao_turno_horas + 1)
ListasDeTurnos(T) ==
    {<<>>} \cup {<<[inicio |-> h, quantidade |-> q]>> : h \in InicioSet(T), q \in 0..MaxQuantidade}
TurnosSet(T) ==
    {[tipo \in {x \in TIPOS : f[x] # <<>>} |-> f[tipo]] : f \in [TIPOS -> ListasDeTurnos(T)]}

ResultadoVazio ==
    [valor_objetivo |-> 0, custo_funcionarios |-> 0, custo_clientes_perdidos |-> 0,
     num_clientes_atrasados |-> 0, num_clientes_nao_atendidos_final |-> 0,
     total_funcionarios |-> 0, num_funcionarios_excesso |-> 0,
     custo_penal_func_extra |-> 0, penalidade_por_cliente |-> 0,
     base_team_por_tipo |-> <<>>, extra_max_total |-> 0, limite |-> FALSE]

Penalidades == {PENALIDADE_POR_CLIENTE, TicketMedio}

----------------------------------------------------------------------------
(* avaliar_turnos, steps 3 to 6: the objective function *)

RECURSIVE SomaQuantidades(_)
SomaQuantidades(lista_turnos) ==
    IF lista_turnos = <<>> THEN 0
    ELSE Head(lista_turnos).quantidade + SomaQuantidades(Tail(lista_turnos))

TotalFuncPorTipo(ts) ==
    [tipo \in TIPOS \cup DOMAIN ts |->
        IF tipo \in DOMAIN ts THEN SomaQuantidades(ts[tipo]) ELSE 0]

TotalFuncionarios(ts) == SomaTipos(TotalFuncPorTipo(ts), DOMAIN TotalFuncPorTipo(ts))

(* sum(base_team_por_tipo.get(t, 0) for t in total_func_por_tipo.keys()) *)
BaseTotal(base, ts) ==
    SomaTipos([t \in DOMAIN TotalFuncPorTipo(ts) |-> IF t \in DOMAIN base THEN base[t] ELSE 0],
              DOMAIN TotalFuncPorTipo(ts))

(* Variant: the extra hires are left out of the limit. *)
NumFuncionariosExcessoSemExtra(ts, limite, base, extra) ==
    IF limite THEN Max2(0, TotalFuncionarios(ts) - BaseTotal(base, ts)) ELSE 0

(* Variant: a headcount equal to the limit already counts as one in excess. *)
NumFuncionariosExcessoDesdeLimite(ts, limite, base, extra) ==
    IF limite THEN Max2(0, TotalFuncionarios(ts) - (BaseTotal(base, ts) + extra) + 1) ELSE 0

NumFuncionariosExcesso(ts, limite, base, extra) ==
    IF limite THEN Max2(0, TotalFuncionarios(ts) - (BaseTotal(base, ts) + extra)) ELSE 0

CustoPenalFuncExtra(excesso, pen) ==
    IF excesso > 0 THEN excesso * pen * FatorPenalFuncExtra ELSE 0

(* Variant: only the unserved arrivals are charged. *)
CustoSoNaoAtendidos(s, pen) == pen * s.clientes_nao_atendidos_apos_ultimo_slot

CustoClientesPerdidos(s, pen) ==
    pen * (s.clientes_nao_atendidos_apos_ultimo_slot + s.num_clientes_atrasados)

(* Variant: the overstaffing penalty is left out of the total. *)
ValorObjetivoSemExtra(folha, perdidos, extra) == folha + perdidos

ValorObjetivo(folha, perdidos, extra) == folha + perdidos + extra

Avaliar(ts, s, pen, limite, base, extra) ==
    LET excesso == NumFuncionariosExcesso(ts, limite, base, extra)
        custo_extra == CustoPenalFuncExtra(excesso, pen)
        perdidos == CustoClientesPerdidos(s, pen)
    IN  [valor_objetivo |-> ValorObjetivo(s.custo_total_folha, perdidos, custo_extra),
         custo_funcionarios |-> s.custo_total_folha,
         custo_clientes_perdidos |-> perdidos,
         num_clientes_atrasados |-> s.num_clientes_atrasados,
         num_clientes_nao_atendidos_final |-> s.clientes_nao_atendidos_apos_ultimo_slot,
         total_funcionarios |-> TotalFuncionarios(ts),
         num_funcionarios_excesso |-> excesso,
         custo_penal_func_extra |-> custo_extra,
         penalidade_por_cliente |-> pen,
         base_team_por_tipo |-> base,
         extra_max_total |-> extra,
         limite |-> limite]

(* avaliar_turnos as a function of its arguments, with a staff limit. *)
avaliar_turnos(hs, chegadas, ts, prod, pen, base, extra) ==
    LET escala == turnos_para_escala_por_hora(hs, ts, duracao_turno_horas)
        s == Simular(escala, prod, chegadas, Len(hs))
    IN  Avaliar(ts, s, pen, TRUE, base, extra)

----------------------------------------------------------------------------
(* painel_utils._construir_resumo_interno: the summary shown for an evaluation *)

(* Variant: the revenue is shown as the cash, the payroll is not taken off. *)
construir_resumo_sem_folha(chave, ticket, chegadas, res) ==
    LET num_clientes_total == Len(chegadas)
        perdidos == res.num_clientes_atrasados + res.num_clientes_nao_atendidos_final
        atendidos == Max2(0, num_clientes_total - perdidos)
        faturamento == atendidos * ticket
    IN  [scenario_key |-> chave,
         num_clientes_total |-> num_clientes_total,
         atendidos |-> atendidos,
         perdidos |-> perdidos,
         ticket_medio |-> ticket,
         faturamento |-> faturamento,
         custo_funcionarios |-> res.custo_funcionarios,
         caixa_apos_folha |-> faturamento,
         valor_objetivo |-> res.valor_objetivo,
         num_clientes_atrasados |-> res.num_clientes_atrasados,
         num_clientes_nao_atendidos_final |-> res.num_clientes_nao_atendidos_final]

construir_resumo_interno(chave, ticket, chegadas, res) ==
    LET num_clientes_total == Len(chegadas)
        perdidos == res.num_clientes_atrasados + res.num_clientes_nao_atendidos_final
        atendidos == Max2(0, num_clientes_total - perdidos)
        faturamento == atendidos * ticket
        caixa_apos_folha == faturamento - res.custo_funcionarios
    IN  [scenario_key |-> chave,
         num_clientes_total |-> num_clientes_total,
         atendidos |-> atendidos,
         perdidos |-> perdidos,
         ticket_medio |-> ticket,
         faturamento |-> faturamento,
         custo_funcionarios |-> res.custo_funcionarios,
         caixa_apos_folha |-> caixa_apos_folha,
         valor_objetivo |-> res.valor_objetivo,
         num_clientes_atrasados |-> res.num_clientes_atrasados,
         num_clientes_nao_atendidos_final |-> res.num_clientes_nao_atendidos_final]

----------------------------------------------------------------------------
(* Inputs of the panel *)

METODOS == {"sa", "brkga"}

(* Schedules of the user: none, or one shift of one tier at the opening hour. *)
TurnosPainel ==
    {ts \in TurnosSet(NumHorasPainel) :
        /\ Cardinality(DOMAIN ts) <= 1
        /\ \A tipo \in DOMAIN ts : /\ tipo # "senior"
                                   /\ ts[tipo][1].inicio = HoraInicio
                                   /\ ts[tipo][1].quantidade > 0}

(* The schedule the archive holds for a method: one senior from the second hour
   on for "sa", more seniors than the base teams of the scenarios have workers for
   "brkga". *)
TurnosArquivados(m) ==
    IF m = "sa"
    THEN [senior |-> <<[inicio |-> HoraInicio + 1, quantidade |-> 1]>>]
    ELSE [senior |-> <<[inicio |-> HoraInicio, quantidade |-> 3 * MaxBase + 1]>>]

(* What solucoes_otimas.json can hold: no file, text that is not JSON, or a
   mapping scenario key -> method -> entry. *)
Arquivos ==
    {[estado |-> "ausente", dados |-> <<>>], [estado |-> "malformado", dados |-> <<>>]}
    \cup {[estado |-> "ok",
           dados |-> [chave \in K |-> [m \in M |-> [turnos |-> TurnosArquivados(m)]]]] :
            K \in {{"antes_tempestade"}, DOMAIN CENARIOS}, M \in {{"sa"}, METODOS}}

SemChamada == [op |-> "", chave |-> "", metodo |-> ""]
SemRetorno == [erro |-> "", valor |-> <<>>]

(* The script of the panel has not run: nothing is chosen and st.session_state
   has no key. *)
SessaoParada ==
    /\ scenario_key = ""
    /\ session_state = <<>>

(* No session of the panel and no thread is running. *)
PainelParado ==
    /\ rng = 0
    /\ arquivo = [estado |-> "ausente", dados |-> <<>>]
    /\ chamada = SemChamada
    /\ retorno = SemRetorno
    /\ geradas = <<>>
    /\ avaliadas = <<>>
    /\ geracoes = [chave \in DOMAIN TabelaCenarios |-> 0]
    /\ leituras = 0
    /\ num_chamadas = 0
    /\ threads = <<>>
    /\ SessaoParada

(* No evaluation is running step by step. *)
FoParado ==
    /\ entrada = ""
    /\ pc = "fim"
    /\ horas = <<>>
    /\ turnos = <<>>
    /\ escala_por_hora = <<>>
    /\ produtividade_tipos = PRODUTIVIDADE_TIPOS
    /\ clientes_por_hora = <<>>
    /\ arrival_times_min = <<>>
    /\ capacidade_por_hora = <<>>
    /\ custo_total_folha = 0
    /\ service_times_min = <<>>
    /\ service_times_client_min = <<>>
    /\ i = 0
    /\ j = 0
    /\ sim = SimVazio
    /\ resultado = ResultadoVazio

----------------------------------------------------------------------------
(* The state machine *)

N == Len(arrival_times_min)
T == Len(horas)

(* A caller hands a headcount table and arrivals to simular_fila_eventos. *)
InitSim ==
    /\ entrada = "simular_fila_eventos"
    /\ pc = "capacidade"
    /\ horas = Janela(NumHorasSim)
    /\ turnos = <<>>
    /\ escala_por_hora \in [TIPOS -> [1..NumHorasSim -> 0..MaxFunc]]
    /\ produtividade_tipos \in TabelasProdutividade
    /\ arrival_times_min \in SeqsAte(TemposChegada(NumHorasSim), MaxChegadas)
    /\ clientes_por_hora = ContagemPorHora(arrival_times_min, NumHorasSim)
    /\ capacidade_por_hora = <<>>
    /\ custo_total_folha = 0
    /\ service_times_min = <<>>
    /\ service_times_client_min = <<>>
    /\ i = 0
    /\ j = 0
    /\ sim = SimVazio
    /\ resultado = ResultadoVazio
    /\ PainelParado

(* A caller hands a schedule and the data of a scenario to avaliar_turnos. *)
Init ==
    /\ entrada = "avaliar_turnos"
    /\ pc = "compilar"
    /\ horas = Janela(NumHoras)
    /\ turnos \in TurnosSet(NumHoras)
    /\ escala_por_hora = <<>>
    /\ produtividade_tipos = PRODUTIVIDADE_TIPOS
    /\ clientes_por_hora \in [1..NumHoras -> 0..MaxClientes]
    /\ arrival_times_min = ChegadasDoCenario(clientes_por_hora)
    /\ capacidade_por_hora = <<>>
    /\ custo_total_folha = 0
    /\ service_times_min = <<>>
    /\ service_times_client_min = <<>>
    /\ i = 0
    /\ j = 0
    /\ sim = SimVazio
    /\ resultado = ResultadoVazio
    /\ PainelParado

(* The arrivals of the worked example, minutes since opening. *)
ChegadasExemplo == <<Minutos(0), Minutos(15), Minutos(30), Minutos(45), Minutos(70)>>

(* The elements of s at the indices in S, in the order of s. *)
RECURSIVE Selecionar(_, _)
Selecionar(s, S) ==
    IF s = <<>> THEN <<>>
    ELSE LET resto == Selecionar(Tail(s), {k - 1 : k \in S \ {1}})
         IN  IF 1 \in S THEN <<Head(s)>> \o resto ELSE resto

(* Schedules with up to two junior shifts, with or without one pleno shift, and
   with or without a shift of a tier that has no productivity. *)
TurnoUnico(nh) == {[inicio |-> h, quantidade |-> q] : h \in InicioSet(nh), q \in 0..MaxQuantidade}
TurnosEscala(nh) ==
    {[tipo \in {x \in {"junior", "pleno", "estagiario"} : f[x] # <<>>} |-> f[tipo]] :
        f \in [junior : SeqsAte(TurnoUnico(nh), 2),
               pleno : {<<>>, <<[inicio |-> HoraInicio, quantidade |-> 1]>>},
               estagiario : {<<>>, <<[inicio |-> HoraInicio, quantidade |-> 1]>>}]}

(* A caller hands avaliar_turnos a schedule and arrivals taken from the worked
   example, on a window of NumHorasSim hours. *)
InitEscala ==
    /\ entrada = "avaliar_turnos"
    /\ pc = "compilar"
    /\ horas = Janela(NumHorasSim)
    /\ turnos \in TurnosEscala(NumHorasSim)
    /\ escala_por_hora = <<>>
    /\ produtividade_tipos = PRODUTIVIDADE_TIPOS
    /\ arrival_times_min \in {Selecionar(ChegadasExemplo, S) : S \in SUBSET (1..Len(ChegadasExemplo))}
    /\ clientes_por_hora = ContagemPorHora(arrival_times_min, NumHorasSim)
    /\ capacidade_por_hora = <<>>
    /\ custo_total_folha = 0
    /\ service_times_min = <<>>
    /\ service_times_client_min = <<>>
    /\ i = 0
    /\ j = 0
    /\ sim = SimVazio
    /\ resultado = ResultadoVazio
    /\ PainelParado

(* avaliar_turnos, step 1 *)
Compilar ==
    /\ pc = "compilar"
    /\ escala_por_hora' = turnos_para_escala_por_hora(horas, turnos, duracao_turno_horas)
    /\ pc' = "capacidade"
    /\ UNCHANGED <<horas, turnos, produtividade_tipos, arrival_times_min, capacidade_por_hora,
                   custo_total_folha, service_times_min, service_times_client_min, entrada,
                   clientes_por_hora, i, j, sim, resultado>>
    /\ UNCHANGED vars_painel
    /\ UNCHANGED vars_sessao

(* simular_fila_eventos up to the start of the FIFO pass *)
Capacidade ==
    /\ pc = "capacidade"
    /\ Len(clientes_por_hora) = T
    /\ capacidade_por_hora' = CapacidadePorHora(escala_por_hora, produtividade_tipos, T)
    /\ custo_total_folha' = CustoTotalFolha(escala_por_hora, CUSTO_HORA_TIPOS, T)
    /\ service_times_min' = ServiceTimes(capacidade_por_hora')
    /\ service_times_client_min' = <<>>
    /\ i' = 0
    /\ j' = 0
    /\ pc' = "fila"
    /\ UNCHANGED <<horas, turnos, escala_por_hora, produtividade_tipos, arrival_times_min,
                   entrada, clientes_por_hora, sim, resultado>>
    /\ UNCHANGED vars_painel
    /\ UNCHANGED vars_sessao

(* Variant: the slots that passed before the arrival are not discarded. *)
AtribuirClienteSemDescarte ==
    /\ pc = "fila"
    /\ i < N
    /\ IF j = Len(service_times_min)
       THEN /\ j' = j
            /\ service_times_client_min' = Append(service_times_client_min, NaN)
       ELSE /\ j' = j + 1
            /\ service_times_client_min' =
                   Append(service_times_client_min, service_times_min[j + 1])
    /\ i' = i + 1
    /\ UNCHANGED <<pc, horas, turnos, escala_por_hora, produtividade_tipos, arrival_times_min,
                   capacidade_por_hora, custo_total_folha, service_times_min, entrada,
                   clientes_por_hora, sim, resultado>>
    /\ UNCHANGED vars_painel
    /\ UNCHANGED vars_sessao

(* One iteration of `for i in range(N)` *)
AtribuirCliente ==
    /\ pc = "fila"
    /\ i < N
    /\ LET st == AtribuirPasso([j |-> j, dados |-> service_times_client_min],
                               service_times_min, arrival_times_min[i + 1])
       IN  /\ j' = st.j
           /\ service_times_client_min' = st.dados
    /\ i' = i + 1
    /\ UNCHANGED <<pc, horas, turnos, escala_por_hora, produtividade_tipos, arrival_times_min,
                   capacidade_por_hora, custo_total_folha, service_times_min, entrada,
                   clientes_por_hora, sim, resultado>>
    /\ UNCHANGED vars_painel
    /\ UNCHANGED vars_sessao

(* The rest of simular_fila_eventos, after the loop *)
Agregar ==
    /\ pc = "fila"
    /\ i = N
    /\ sim' = [capacidade_por_hora |-> capacidade_por_hora,
               num_atendidos |-> NumAtendidos(service_times_client_min),
               clientes_nao_atendidos_apos_ultimo_slot |->
                   NumNaoAtendidos(service_times_client_min),
               num_clientes_atrasados |->
                   NumClientesAtrasados(service_times_client_min, arrival_times_min),
               custo_total_folha |-> custo_total_folha,
               clientes_atendidos_por_hora |->
                   ClientesAtendidosPorHora(service_times_client_min, arrival_times_min, T),
               fila_inicio_hora |->
                   FilaInicioHora(FilaFimHora(service_times_client_min, arrival_times_min, T)),
               fila_fim_hora |-> FilaFimHora(service_times_client_min, arrival_times_min, T),
               backlog_acumulado_por_hora |->
                   CumSum(FilaFimHora(service_times_client_min, arrival_times_min, T))]
    /\ pc' = IF entrada = "avaliar_turnos" THEN "objetivo" ELSE "fim"
    /\ UNCHANGED <<horas, turnos, escala_por_hora, produtividade_tipos, arrival_times_min,
                   capacidade_por_hora, custo_total_folha, service_times_min,
                   service_times_client_min, entrada, clientes_por_hora, i, j, resultado>>
    /\ UNCHANGED vars_painel
    /\ UNCHANGED vars_sessao

(* avaliar_turnos, steps 3 to 6, with the penalty and the staff limit of the call *)
Objetivo ==
    /\ pc = "objetivo"
    /\ \E pen \in Penalidades, limite \in BOOLEAN,
          base \in [TIPOS -> 0..MaxBase], extra \in 0..MaxExtra :
          /\ ~limite => (base = [t \in TIPOS |-> 0] /\ extra = 0)
          /\ resultado' = Avaliar(turnos, sim, pen, limite, base, extra)
    /\ pc' = "fim"
    /\ UNCHANGED <<horas, turnos, escala_por_hora, produtividade_tipos, arrival_times_min,
                   capacidade_por_hora, custo_total_folha, service_times_min,
                   service_times_client_min, entrada, clientes_por_hora, i, j, sim>>
    /\ UNCHANGED vars_painel
    /\ UNCHANGED vars_sessao

----------------------------------------------------------------------------
(* A session of the panel: one call after the other, each run to its end *)

InitPainel ==
    /\ FoParado
    /\ rng \in 0..(RngMod - 1)
    /\ arquivo \in Arquivos
    /\ chamada = SemChamada
    /\ retorno = SemRetorno
    /\ geradas = <<>>
    /\ avaliadas = <<>>
    /\ geracoes = [chave \in DOMAIN TabelaCenarios |-> 0]
    /\ leituras = 0
    /\ num_chamadas = 0
    /\ threads = <<>>
    /\ SessaoParada

(* obter_dados_cenario(chave), as the panel calls it when it is drawn *)
ObterDadosCenario(chave) ==
    /\ num_chamadas < MaxChamadas
    /\ LET r == carregar_cenario(chave, rng)
       IN  /\ rng' = r.rng
           /\ retorno' = [erro |-> r.erro, valor |-> r.dados]
           /\ geradas' = IF r.erro = ""
                         THEN Append(geradas, [chave |-> chave, dados |-> r.dados])
                         ELSE geradas
    /\ geracoes' = IF chave \in DOMAIN geracoes
                   THEN [geracoes EXCEPT ![chave] = @ + 1] ELSE geracoes
    /\ chamada' = [op |-> "obter_dados_cenario", chave |-> chave, metodo |-> ""]
    /\ num_chamadas' = num_chamadas + 1
    /\ UNCHANGED <<arquivo, avaliadas, leituras, threads>>
    /\ UNCHANGED vars_fo
    /\ UNCHANGED vars_sessao

(* Variant: total_func_por_tipo is the productivity table itself instead of a new
   dict, so the evaluation leaves the headcounts of the schedule in that table. *)
AvaliarNoCenarioComAlias(chave, ts, origem) ==
    LET r == carregar_cenario(chave, rng)
        c == TabelaCenarios[chave]
        res == avaliar_turnos(r.dados.horas, r.dados.arrival_times_min, ts,
                              produtividade_tipos, c.ticket_medio,
                              c.base_team_por_tipo, c.extra_max_total)
        resumo == construir_resumo_interno(chave, c.ticket_medio,
                                           r.dados.arrival_times_min, res)
    IN  /\ rng' = r.rng
        /\ geracoes' = [geracoes EXCEPT ![chave] = @ + 1]
        /\ IF r.erro # ""
           THEN /\ retorno' = [erro |-> r.erro, valor |-> <<>>]
                /\ UNCHANGED <<geradas, avaliadas, produtividade_tipos>>
           ELSE /\ retorno' = [erro |-> "", valor |-> [resultado |-> res, resumo |-> resumo]]
                /\ geradas' = Append(geradas, [chave |-> chave, dados |-> r.dados])
                /\ avaliadas' = Append(avaliadas,
                       [chave |-> chave, origem |-> origem, turnos |-> ts,
                        arrival_times_min |-> r.dados.arrival_times_min,
                        resultado |-> res, resumo |-> resumo])
                /\ produtividade_tipos' =
                       [t \in DOMAIN produtividade_tipos |-> TotalFuncPorTipo(ts)[t] * ProdDen]

(* The common part of the two evaluations of the panel: obter_dados_cenario, then
   avaliar_turnos with the ticket, the base team and the extra limit of the
   scenario, then the summary of the result. *)
AvaliarNoCenario(chave, ts, origem) ==
    LET r == carregar_cenario(chave, rng)
        c == TabelaCenarios[chave]
        res == avaliar_turnos(r.dados.horas, r.dados.arrival_times_min, ts,
                              produtividade_tipos, c.ticket_medio,
                              c.base_team_por_tipo, c.extra_max_total)
        resumo == construir_resumo_interno(chave, c.ticket_medio,
                                           r.dados.arrival_times_min, res)
    IN  /\ rng' = r.rng
        /\ geracoes' = [geracoes EXCEPT ![chave] = @ + 1]
        /\ IF r.erro # ""
           THEN /\ retorno' = [erro |-> r.erro, valor |-> <<>>]
                /\ UNCHANGED <<geradas, avaliadas, produtividade_tipos>>
           ELSE /\ retorno' = [erro |-> "", valor |-> [resultado |-> res, resumo |-> resumo]]
                /\ geradas' = Append(geradas, [chave |-> chave, dados |-> r.dados])
                /\ avaliadas' = Append(avaliadas,
                       [chave |-> chave, origem |-> origem, turnos |-> ts,
                        arrival_times_min |-> r.dados.arrival_times_min,
                        resultado |-> res, resumo |-> resumo])
                /\ UNCHANGED produtividade_tipos

(* avaliar_escala_usuario(chave, ts) *)
AvaliarEscalaUsuario(chave, ts) ==
    /\ num_chamadas < MaxChamadas
    /\ AvaliarNoCenario(chave, ts, "usuario")
    /\ chamada' = [op |-> "avaliar_escala_usuario", chave |-> chave, metodo |-> ""]
    /\ num_chamadas' = num_chamadas + 1
    /\ UNCHANGED <<arquivo, leituras, threads>>
    /\ UNCHANGED vars_passos
    /\ UNCHANGED vars_sessao

(* Variant: the scenario is generated before the archive is looked up. *)
ObterEscalaOtimaGeraAntes(chave, metodo) ==
    /\ num_chamadas < MaxChamadas
    /\ leituras' = leituras + 1
    /\ LET e == carregar_turnos_otimos(arquivo, chave, metodo)
           r == carregar_cenario(chave, rng)
       IN  IF e = None
           THEN /\ retorno' = [erro |-> "ValueError", valor |-> <<>>]
                /\ rng' = r.rng
                /\ geracoes' = [geracoes EXCEPT ![chave] = @ + 1]
                /\ UNCHANGED <<geradas, avaliadas, produtividade_tipos>>
           ELSE AvaliarNoCenario(chave, e[1].turnos, metodo)
    /\ chamada' = [op |-> "obter_escala_otima", chave |-> chave, metodo |-> metodo]
    /\ num_chamadas' = num_chamadas + 1
    /\ UNCHANGED <<arquivo, threads>>
    /\ UNCHANGED vars_passos
    /\ UNCHANGED vars_sessao

(* obter_escala_otima(chave, metodo) *)
ObterEscalaOtima(chave, metodo) ==
    /\ num_chamadas < MaxChamadas
    /\ leituras' = leituras + 1
    /\ LET e == carregar_turnos_otimos(arquivo, chave, metodo)
       IN  IF e = None
           THEN /\ retorno' = [erro |-> "ValueError", valor |-> <<>>]
                /\ UNCHANGED <<rng, geradas, avaliadas, geracoes, produtividade_tipos>>
           ELSE AvaliarNoCenario(chave, e[1].turnos, metodo)
    /\ chamada' = [op |-> "obter_escala_otima", chave |-> chave, metodo |-> metodo]
    /\ num_chamadas' = num_chamadas + 1
    /\ UNCHANGED <<arquivo, threads>>
    /\ UNCHANGED vars_passos
    /\ UNCHANGED vars_sessao

NextPainel ==
    \/ \E chave \in DOMAIN TabelaCenarios \cup {"inexistente"} : ObterDadosCenario(chave)
    \/ \E chave \in DOMAIN TabelaCenarios, ts \in TurnosPainel : AvaliarEscalaUsuario(chave, ts)
    \/ \E chave \in DOMAIN CENARIOS, metodo \in METODOS : ObterEscalaOtima(chave, metodo)

----------------------------------------------------------------------------
(* Calls running at the same time, each in its own thread: a thread runs either
   carregar_cenario for a key, or avaliar_turnos on the data of a key and a
   schedule.  The generator and the productivity table are shared; lambdas, the
   compiled table and the return value are local to the thread. *)

(* The data of a scenario of the table, generated with nothing else running. *)
DadosDoCenario(chave) == carregar_cenario(chave, 0).dados

ThreadsIniciais ==
    {[op |-> "carregar_cenario", pc |-> "seed", chave |-> k, turnos |-> <<>>,
      local |-> <<>>, erro |-> "", retorno |-> <<>>] : k \in DOMAIN CENARIOS}
    \cup {[op |-> "avaliar_turnos", pc |-> "compilar", chave |-> k, turnos |-> ts,
           local |-> <<>>, erro |-> "", retorno |-> <<>>] :
            k \in DOMAIN CENARIOS, ts \in TurnosPainel}

InitConcorrente ==
    /\ FoParado
    /\ rng \in 0..(RngMod - 1)
    /\ arquivo = [estado |-> "ausente", dados |-> <<>>]
    /\ chamada = SemChamada
    /\ retorno = SemRetorno
    /\ geradas = <<>>
    /\ avaliadas = <<>>
    /\ geracoes = [chave \in DOMAIN TabelaCenarios |-> 0]
    /\ leituras = 0
    /\ num_chamadas = 0
    /\ threads \in [1..NumThreads -> ThreadsIniciais]
    /\ SessaoParada

(* gerar_dados_cenario up to and including np.random.seed *)
Semear(th) ==
    /\ threads[th].pc = "seed"
    /\ LET config == TabelaCenarios[threads[th].chave]
           hs == [t \in 1..(config.hora_fim - config.hora_inicio) |->
                     config.hora_inicio + t - 1]
           lambdas == [t \in 1..Len(hs) |->
                          IF hs[t] \in config.horas_pico
                          THEN config.media_pico ELSE config.media_vale]
       IN  IF config.hora_fim <= config.hora_inicio
           THEN /\ threads' = [threads EXCEPT ![th].pc = "fim", ![th].erro = "ValueError"]
                /\ rng' = rng
           ELSE /\ threads' = [threads EXCEPT ![th].pc = "poisson", ![th].local = lambdas]
                /\ rng' = IF config.seed_demanda # None
                          THEN Semente(config.seed_demanda[1]) ELSE rng
    /\ UNCHANGED <<arquivo, chamada, retorno, geradas, avaliadas, geracoes, leituras,
                   num_chamadas>>
    /\ UNCHANGED vars_fo
    /\ UNCHANGED vars_sessao

(* gerar_dados_cenario from np.random.poisson to its return *)
Sortear(th) ==
    /\ threads[th].pc = "poisson"
    /\ LET lambdas == threads[th].local
           p == Poisson(rng, lambdas)
           config == TabelaCenarios[threads[th].chave]
           hs == [t \in 1..Len(lambdas) |-> config.hora_inicio + t - 1]
       IN  IF \E t \in 1..Len(lambdas) : lambdas[t] < 0
           THEN /\ threads' = [threads EXCEPT ![th].pc = "fim", ![th].erro = "ValueError"]
                /\ rng' = rng
           ELSE /\ threads' = [threads EXCEPT
                       ![th].pc = "fim",
                       ![th].retorno =
                           [horas |-> hs, clientes_por_hora |-> p.valores,
                            arrival_times_min |-> ChegadasDoCenario(p.valores),
                            arrival_hour_index |-> IndicesDoCenario(p.valores)]]
                /\ rng' = p.rng
    /\ UNCHANGED <<arquivo, chamada, retorno, geradas, avaliadas, geracoes, leituras,
                   num_chamadas>>
    /\ UNCHANGED vars_fo
    /\ UNCHANGED vars_sessao

(* avaliar_turnos, step 1, in a thread *)
CompilarThread(th) ==
    /\ threads[th].pc = "compilar"
    /\ threads' = [threads EXCEPT
           ![th].pc = "simular",
           ![th].local = turnos_para_escala_por_hora(
                             DadosDoCenario(threads[th].chave).horas,
                             threads[th].turnos, duracao_turno_horas)]
    /\ UNCHANGED <<rng, arquivo, chamada, retorno, geradas, avaliadas, geracoes, leituras,
                   num_chamadas>>
    /\ UNCHANGED vars_fo
    /\ UNCHANGED vars_sessao

(* avaliar_turnos, steps 2 to 6, in a thread *)
AvaliarThread(th) ==
    /\ threads[th].pc = "simular"
    /\ LET d == DadosDoCenario(threads[th].chave)
           c == TabelaCenarios[threads[th].chave]
           s == Simular(threads[th].local, produtividade_tipos, d.arrival_times_min,
                        Len(d.horas))
       IN  threads' = [threads EXCEPT
               ![th].pc = "fim",
               ![th].retorno = Avaliar(threads[th].turnos, s, c.ticket_medio, TRUE,
                                       c.base_team_por_tipo, c.extra_max_total)]
    /\ UNCHANGED <<rng, arquivo, chamada, retorno, geradas, avaliadas, geracoes, leituras,
                   num_chamadas>>
    /\ UNCHANGED vars_fo
    /\ UNCHANGED vars_sessao

NextConcorrente ==
    \E th \in 1..NumThreads :
        Semear(th) \/ Sortear(th) \/ CompilarThread(th) \/ AvaliarThread(th)

----------------------------------------------------------------------------
(* app_painel.py: the script of the panel.  It runs from top to bottom once for
   every event of the page: a choice in the sidebar, a click on a button, a move
   of a slider.  A click handler that ends in st.rerun() starts the script again
   from the top, without event; an action is the event with all the runs it
   causes.  session_state keeps its keys from one run to the next. *)

(* CENARIO_3, with the window cut to NumHorasPainel + 1 hours, the base team to
   MaxBase workers per tier and the extra hires to MaxExtra + 1. *)
CENARIO_3 ==
    [hora_inicio |-> HoraInicio - 1,
     hora_fim |-> HoraInicio + NumHorasPainel,
     horas_pico |-> {HoraInicio, HoraInicio + 1},
     media_pico |-> 45,
     media_vale |-> 18,
     seed_demanda |-> <<303>>,
     base_team_por_tipo |-> [t \in TIPOS |-> MaxBase],
     extra_max_total |-> MaxExtra + 1,
     ticket_medio |-> 250]

(* The scenarios the sidebar offers (SCENARIO_LABEL_MAP): one without and one with
   extra hires. *)
SCENARIO_LABEL_MAP ==
    [chave \in {"antes_tempestade", "black_friday"} |->
        IF chave = "black_friday" THEN CENARIO_3 ELSE CENARIOS[chave]]

(* The archive of a session: entries of both methods for every scenario offered,
   or for the first scenario only. *)
ArquivosDaSessao ==
    {[estado |-> "ok",
      dados |-> [chave \in K |-> [m \in METODOS |-> [turnos |-> TurnosArquivados(m)]]]] :
        K \in {{"antes_tempestade"}, DOMAIN SCENARIO_LABEL_MAP}}

ORDEM_TIPO == [t \in TIPOS |-> IF t = "senior" THEN 0 ELSE IF t = "pleno" THEN 1 ELSE 2]

(* ordenar_funcionarios: by tier order, then by id *)
ordenar_funcionarios(funcs) ==
    SortSeq(funcs, LAMBDA a, b :
        \/ ORDEM_TIPO[a.tipo] < ORDEM_TIPO[b.tipo]
        \/ (ORDEM_TIPO[a.tipo] = ORDEM_TIPO[b.tipo] /\ a.id < b.id))

(* painel_utils.construir_horas_inicio_validas *)
construir_horas_inicio_validas(hs) ==
    [n \in 1..(Len(hs) - duracao_turno_horas + 1) |-> hs[1] + n - 1]

(* The hours of the operating window of a configuration. *)
HorasDoCenario(config) ==
    [t \in 1..(config.hora_fim - config.hora_inicio) |-> config.hora_inicio + t - 1]

(* The elements of a finite set of integers, in increasing order. *)
RECURSIVE Sorted(_)
Sorted(S) ==
    IF S = {} THEN <<>>
    ELSE LET m == CHOOSE x \in S : \A y \in S : x <= y
         IN  <<m>> \o Sorted(S \ {m})

(* funcionarios_para_turnos: the workers of the list as shifts of each tier *)
funcionarios_para_turnos(funcs, tipos, horas_inicio_turno) ==
    LET por_hora(tipo) == {funcs[n].inicio : n \in {x \in 1..Len(funcs) : funcs[x].tipo = tipo}}
        validas == {horas_inicio_turno[n] : n \in 1..Len(horas_inicio_turno)}
        quantidade(tipo, h) ==
            Cardinality({n \in 1..Len(funcs) : funcs[n].tipo = tipo /\ funcs[n].inicio = h})
    IN  [tipo \in {t \in tipos \cup {funcs[n].tipo : n \in 1..Len(funcs)} : por_hora(t) # {}} |->
            LET hs == Sorted(por_hora(tipo) \cap validas)
            IN  [n \in 1..Len(hs) |-> [inicio |-> hs[n], quantidade |-> quantidade(tipo, hs[n])]]]

(* qtd_por_tipo, extras_usados and extras_restantes of the add buttons *)
QtdPorTipo(funcs) ==
    [t \in TIPOS |-> Cardinality({n \in 1..Len(funcs) : funcs[n].tipo = t})]

BaseGet(base_team, t) == IF t \in DOMAIN base_team THEN base_team[t] ELSE 0

ExtrasUsados(funcs, base_team) ==
    SomaTipos([t \in TIPOS |-> Max2(0, QtdPorTipo(funcs)[t] - BaseGet(base_team, t))], TIPOS)

ExtrasRestantes(funcs, config) ==
    Max2(0, config.extra_max_total - ExtrasUsados(funcs, config.base_team_por_tipo))

capacidade_restante(tipo, funcs, config) ==
    LET max_para_tipo == BaseGet(config.base_team_por_tipo, tipo) + ExtrasRestantes(funcs, config)
    IN  Max2(0, max_para_tipo - QtdPorTipo(funcs)[tipo])

(* Both archived schedules of the scenario are found. *)
ArquivoTem(chave) ==
    \A m \in METODOS : carregar_turnos_otimos(arquivo, chave, m) # None

(* Variant: a change of scenario keeps the worker list. *)
ReiniciarSemLimpar(ss, chave) ==
    IF "scenario_key" \notin DOMAIN ss
    THEN [scenario_key |-> chave, funcionarios |-> <<>>, next_func_id |-> 1,
          mostrar_comparacao |-> FALSE]
    ELSE [ss EXCEPT !.scenario_key = chave]

(* The reset of the worker list when the scenario chosen is not the one kept. *)
Reiniciar(ss, chave) ==
    IF "scenario_key" \notin DOMAIN ss \/ ss.scenario_key # chave
    THEN [scenario_key |-> chave, funcionarios |-> <<>>, next_func_id |-> 1,
          mostrar_comparacao |-> FALSE]
    ELSE ss

(* The slider rows: every start hour is brought into the valid range. *)
AjustarInicios(funcs, horas_inicio_turno) ==
    LET min_inicio == horas_inicio_turno[1]
        max_inicio == horas_inicio_turno[Len(horas_inicio_turno)]
    IN  [n \in 1..Len(funcs) |->
            [funcs[n] EXCEPT !.inicio = Max2(min_inicio, Min2(@, max_inicio))]]

(* avaliar_escala_usuario as a function of the configuration and the schedule. *)
ResultadoDoUsuario(chave, config, ts) ==
    LET r == gerar_dados_cenario(config, rng)
        res == avaliar_turnos(r.dados.horas, r.dados.arrival_times_min, ts,
                              produtividade_tipos, config.ticket_medio,
                              config.base_team_por_tipo, config.extra_max_total)
    IN  [resultado |-> res,
         resumo |-> construir_resumo_interno(chave, config.ticket_medio,
                                             r.dados.arrival_times_min, res)]

(* One run of the script without click, for the scenario chosen and the session
   state ss it starts from: the scenario data, the two archived schedules (the
   run ends there with ValueError when one is missing), the reset, the slider
   rows and the evaluation of the schedule of the user. *)
Executar(chave, ss) ==
    LET config == SCENARIO_LABEL_MAP[chave]
        horas_inicio_turno == construir_horas_inicio_validas(HorasDoCenario(config))
        ss1 == Reiniciar(ss, chave)
        ss2 == [ss1 EXCEPT !.funcionarios = AjustarInicios(@, horas_inicio_turno)]
    IN  /\ scenario_key' = chave
        /\ rng' = gerar_dados_cenario(config, rng).rng
        /\ IF ~ArquivoTem(chave)
           THEN /\ session_state' = ss
                /\ chamada' = [op |-> "obter_escala_otima", chave |-> chave, metodo |-> ""]
                /\ retorno' = [erro |-> "ValueError", valor |-> <<>>]
           ELSE /\ session_state' = ss2
                /\ chamada' = [op |-> "avaliar_escala_usuario", chave |-> chave, metodo |-> ""]
                /\ retorno' =
                       [erro |-> "",
                        valor |-> ResultadoDoUsuario(chave, config,
                                      funcionarios_para_turnos(ss2.funcionarios, TIPOS,
                                                               horas_inicio_turno))]
        /\ UNCHANGED <<arquivo, geradas, avaliadas, geracoes, leituras, num_chamadas, threads>>
        /\ UNCHANGED vars_fo

InitSessao ==
    /\ FoParado
    /\ rng \in 0..(RngMod - 1)
    /\ arquivo \in ArquivosDaSessao
    /\ chamada = SemChamada
    /\ retorno = SemRetorno
    /\ geradas = <<>>
    /\ avaliadas = <<>>
    /\ geracoes = [chave \in DOMAIN TabelaCenarios |-> 0]
    /\ leituras = 0
    /\ num_chamadas = 0
    /\ threads = <<>>
    /\ SessaoParada

(* The last run drew the whole page: the buttons and sliders can be used. *)
PaginaDesenhada ==
    /\ retorno.erro = ""
    /\ "scenario_key" \in DOMAIN session_state
    /\ session_state.scenario_key = scenario_key

(* The page is opened, or a scenario is chosen in the sidebar. *)
EscolherCenario(chave) ==
    /\ chave \in DOMAIN SCENARIO_LABEL_MAP
    /\ Executar(chave, session_state)

(* A click on the add button of a tier, which is disabled when nothing remains. *)
AdicionarFuncionario(tipo) ==
    /\ PaginaDesenhada
    /\ session_state.next_func_id <= MaxFuncId
    /\ LET config == SCENARIO_LABEL_MAP[scenario_key]
           min_inicio == construir_horas_inicio_validas(HorasDoCenario(config))[1]
       IN  /\ capacidade_restante(tipo, session_state.funcionarios, config) > 0
           /\ Executar(scenario_key,
                  [session_state EXCEPT
                      !.funcionarios = ordenar_funcionarios(Append(@,
                          [id |-> session_state.next_func_id, tipo |-> tipo,
                           inicio |-> min_inicio])),
                      !.next_func_id = @ + 1])

(* A click on the X of the row of a worker. *)
RemoverFuncionario(id) ==
    /\ PaginaDesenhada
    /\ \E n \in 1..Len(session_state.funcionarios) : session_state.funcionarios[n].id = id
    /\ Executar(scenario_key,
           [session_state EXCEPT
               !.funcionarios = ordenar_funcionarios(
                   SelectSeq(@, LAMBDA func : func.id # id))])

(* The slider of the row of a worker is moved: its first handle gives the start. *)
MoverSlider(id, novo_inicio) ==
    /\ PaginaDesenhada
    /\ \E n \in 1..Len(session_state.funcionarios) : session_state.funcionarios[n].id = id
    /\ LET horas_inicio_turno ==
               construir_horas_inicio_validas(HorasDoCenario(SCENARIO_LABEL_MAP[scenario_key]))
           slider_min == horas_inicio_turno[1]
           slider_max == horas_inicio_turno[Len(horas_inicio_turno)] + duracao_turno_horas
       IN  /\ novo_inicio \in slider_min..slider_max
           /\ Executar(scenario_key,
                  [session_state EXCEPT
                      !.funcionarios =
                          [n \in 1..Len(@) |->
                              IF @[n].id = id THEN [@[n] EXCEPT !.inicio = novo_inicio]
                              ELSE @[n]]])

(* A click on "Mostrar resultados IAs", shown in the middle row of the list. *)
AlternarComparacao ==
    /\ PaginaDesenhada
    /\ Len(session_state.funcionarios) > 0
    /\ Executar(scenario_key,
           [session_state EXCEPT !.mostrar_comparacao = ~@])

NextSessao ==
    \/ \E chave \in DOMAIN SCENARIO_LABEL_MAP : EscolherCenario(chave)
    \/ \E tipo \in TIPOS : AdicionarFuncionario(tipo)
    \/ \E id \in 1..MaxFuncId : RemoverFuncionario(id)
    \/ \E id \in 1..MaxFuncId, h \in (HoraInicio - 1)..(HoraInicio + NumHorasPainel) :
          MoverSlider(id, h)
    \/ AlternarComparacao

SpecSessao == InitSessao /\ [][NextSessao]_vars

----------------------------------------------------------------------------
(* The specifications *)

NextSim == Capacidade \/ AtribuirCliente \/ Agregar
Next == Compilar \/ Capacidade \/ AtribuirCliente \/ Agregar \/ Objetivo

SpecSim == InitSim /\ [][NextSim]_vars
SpecEscala == InitEscala /\ [][Next]_vars
SpecPainel == InitPainel /\ [][NextPainel]_vars
SpecConcorrente == InitConcorrente /\ [][NextConcorrente]_vars
Spec == Init /\ [][Next]_vars

----------------------------------------------------------------------------
(* Vocabulary of the properties *)

Terminou == pc = "fim"
SimulacaoFeita == pc \in {"objetivo", "fim"}

HoraFim == HoraInicio + T

Servido(n) == ~IsNaN(service_times_client_min[n])

(* The arrivals come in time order, as gerar_dados_cenario builds them. *)
Ordenadas(chegadas) ==
    \A n \in 1..(Len(chegadas) - 1) : MenorIgual(chegadas[n], chegadas[n + 1])

(* Headcount table equal to escala but for one more worker of tipo in hour t. *)
Aumentada(escala, tipo, t) == [escala EXCEPT ![tipo][t] = @ + 1]

Perdidos(s) == s.clientes_nao_atendidos_apos_ultimo_slot + s.num_clientes_atrasados

(* Sum of f over a finite set of keys, for the properties. *)
RECURSIVE Soma(_, _)
Soma(f, S) == IF S = {} THEN 0 ELSE LET x == CHOOSE y \in S : TRUE IN f[x] + Soma(f, S \ {x})

(* Hours of the window that the shift starting at inicio covers. *)
HorasCobertas(inicio) ==
    Max2(0, Min2(inicio + duracao_turno_horas, HoraFim) - Max2(inicio, HoraInicio))

InicioValido(inicio) == inicio >= HoraInicio /\ inicio <= HoraFim - duracao_turno_horas

(* A start hour brought to the nearest bound of the valid range. *)
Clamp(inicio) == Max2(HoraInicio, Min2(inicio, HoraFim - duracao_turno_horas))

TurnosClamp(ts) ==
    [tipo \in DOMAIN ts |->
        [k \in 1..Len(ts[tipo]) |->
            [inicio |-> Clamp(ts[tipo][k].inicio), quantidade |-> ts[tipo][k].quantidade]]]

(* Total headcount of a schedule: every quantidade of every tier. *)
Headcount(ts) ==
    Soma([tipo \in DOMAIN ts |->
             Soma([k \in 1..Len(ts[tipo]) |-> ts[tipo][k].quantidade], 1..Len(ts[tipo]))],
         DOMAIN ts)

(* The integer nearest to n/d, the even one of the two when n/d is a half. *)
MaisProximo(n, d) ==
    CHOOSE k \in 0..(n + 1) :
        /\ 2 * k * d - 2 * n <= d
        /\ 2 * n - 2 * k * d <= d
        /\ (2 * k * d - 2 * n = d \/ 2 * n - 2 * k * d = d) => k % 2 = 0

----------------------------------------------------------------------------
(* C1: when the simulation has run, every arrival is either served, holding one
   slot of the day that no other arrival holds, or unserved, and the served and
   unserved counts add up to the number of arrivals. *)
C1_ServedPlusUnserved ==
    SimulacaoFeita =>
        /\ Len(service_times_client_min) = N
        /\ sim.num_atendidos + sim.clientes_nao_atendidos_apos_ultimo_slot = N
        /\ \A n \in 1..N :
              Servido(n) =>
                  \E k \in 1..Len(service_times_min) :
                      service_times_min[k] = service_times_client_min[n]
        /\ \A m, n \in 1..N :
              (m < n /\ Servido(m) /\ Servido(n)) =>
                  Menor(service_times_client_min[m], service_times_client_min[n])

C1_Witness ==
    /\ Terminou
    /\ sim.num_atendidos >= 2
    /\ sim.clientes_nao_atendidos_apos_ultimo_slot >= 1

(* C2 as stated: for any two served arrivals, whatever the order of the arrival
   array, the one with the earlier arrival time has a slot no later than the other. *)
C2_NoOvertakingAnyOrder ==
    \A m, n \in 1..Len(service_times_client_min) :
        (Servido(m) /\ Servido(n) /\ Menor(arrival_times_min[m], arrival_times_min[n])) =>
            MenorIgual(service_times_client_min[m], service_times_client_min[n])

(* C2 amended: when the arrival array is in non-decreasing time order, a served
   arrival with an earlier arrival time has a slot no later than one with a later
   arrival time, at every point of the FIFO pass. *)
C2_NoOvertakingOrdered ==
    Ordenadas(arrival_times_min) => C2_NoOvertakingAnyOrder

C2_Witness ==
    /\ Terminou
    /\ Ordenadas(arrival_times_min)
    /\ \E m, n \in 1..N :
          /\ Servido(m) /\ Servido(n)
          /\ Menor(arrival_times_min[m], arrival_times_min[n])
          /\ Menor(service_times_client_min[m], service_times_client_min[n])

(* C3 as stated, for arrivals in time order and the built-in productivities: one more worker of any tier in any
   hour never increases the number of unserved plus delayed arrivals. *)
C3_MonotoneLost ==
    (Terminou /\ Ordenadas(arrival_times_min) /\ produtividade_tipos = PRODUTIVIDADE_TIPOS) =>
        \A tipo \in TIPOS, t \in 1..T :
            Perdidos(Simular(Aumentada(escala_por_hora, tipo, t), produtividade_tipos,
                             arrival_times_min, T)) <= Perdidos(sim)

(* C3 amended: one more worker of any tier in any hour never increases the number
   of unserved arrivals. *)
C3_MonotoneUnserved ==
    Terminou =>
        \A tipo \in TIPOS, t \in 1..T :
            Simular(Aumentada(escala_por_hora, tipo, t), produtividade_tipos,
                    arrival_times_min, T).clientes_nao_atendidos_apos_ultimo_slot
                <= sim.clientes_nao_atendidos_apos_ultimo_slot

C3_Witness ==
    /\ Terminou
    /\ \E tipo \in TIPOS, t \in 1..T :
          LET b == Simular(Aumentada(escala_por_hora, tipo, t), produtividade_tipos,
                           arrival_times_min, T)
          IN  /\ b.clientes_nao_atendidos_apos_ultimo_slot
                    < sim.clientes_nao_atendidos_apos_ultimo_slot
              /\ b.num_clientes_atrasados > sim.num_clientes_atrasados

(* C4 as stated: the schedule is evaluated as if every start hour outside
   [open, close - duration] were the nearest bound of that range. *)
C4_EvaluatedAsClamped ==
    (entrada = "avaliar_turnos" /\ pc # "compilar") =>
        escala_por_hora =
            turnos_para_escala_por_hora(horas, TurnosClamp(turnos), duracao_turno_horas)

(* C4 amended: a shift is counted at its own start hour, in range or not: the
   worker-hours of a tier are, over its shifts, quantidade times the number of hours
   of [inicio, inicio + duration) that lie inside the window. *)
C4_EvaluatedAsGiven ==
    (entrada = "avaliar_turnos" /\ pc # "compilar") =>
        \A tipo \in DOMAIN turnos :
            SeqSum(escala_por_hora[tipo]) =
                Soma([k \in 1..Len(turnos[tipo]) |->
                         turnos[tipo][k].quantidade * HorasCobertas(turnos[tipo][k].inicio)],
                     1..Len(turnos[tipo]))

C4_Witness ==
    /\ Terminou
    /\ \E tipo \in DOMAIN turnos : \E k \in 1..Len(turnos[tipo]) :
          /\ turnos[tipo][k].inicio < HoraInicio
          /\ turnos[tipo][k].quantidade > 0
          /\ SeqSum(escala_por_hora[tipo]) = turnos[tipo][k].quantidade * (duracao_turno_horas - 1)
    /\ \E tipo \in DOMAIN turnos : \E k \in 1..Len(turnos[tipo]) :
          /\ turnos[tipo][k].inicio > HoraFim - duracao_turno_horas
          /\ turnos[tipo][k].quantidade > 0
          /\ escala_por_hora[tipo][T] = turnos[tipo][k].quantidade

(* Productivity-weighted headcount of hour t, in 1/ProdDen customers. *)
ProdutoTotal(t) ==
    Soma([tipo \in TIPOS |-> escala_por_hora[tipo][t] * produtividade_tipos[tipo]], TIPOS)

(* C5 as stated: the capacity of every hour is the total over the tiers of
   headcount times productivity, rounded once. *)
C5_RoundOfTotal ==
    (pc # "capacidade" /\ pc # "compilar") =>
        \A t \in 1..T : capacidade_por_hora[t] = MaisProximo(ProdutoTotal(t), ProdDen)

(* C5 amended: the capacity of every hour is the sum over the tiers of headcount
   times productivity rounded for each tier (a half to the even integer); it is the
   rounded total when every product is a whole number. *)
C5_RoundPerTier ==
    (pc # "capacidade" /\ pc # "compilar") =>
        \A t \in 1..T :
            /\ capacidade_por_hora[t] =
                   Soma([tipo \in TIPOS |->
                            MaisProximo(escala_por_hora[tipo][t] * produtividade_tipos[tipo],
                                        ProdDen)], TIPOS)
            /\ (\A tipo \in TIPOS :
                   (escala_por_hora[tipo][t] * produtividade_tipos[tipo]) % ProdDen = 0)
                   => capacidade_por_hora[t] * ProdDen = ProdutoTotal(t)

C5_Witness ==
    /\ Terminou
    /\ \E t \in 1..T :
          /\ capacidade_por_hora[t] > 0
          /\ capacidade_por_hora[t] # MaisProximo(ProdutoTotal(t), ProdDen)

(* The slot of arrival n comes more than the wait limit after the arrival. *)
EsperaMaiorQueLimite(n) ==
    LET s == service_times_client_min[n]
        a == arrival_times_min[n]
    IN  s.num * a.den > (a.num + LIMITE_ESPERA_MIN * a.den) * s.den

EsperaIgualAoLimite(n) ==
    LET s == service_times_client_min[n]
        a == arrival_times_min[n]
    IN  s.num * a.den = (a.num + LIMITE_ESPERA_MIN * a.den) * s.den

AtrasadosSet == {n \in 1..N : Servido(n) /\ EsperaMaiorQueLimite(n)}
NaoAtendidosSet == {n \in 1..N : ~Servido(n)}

(* C6: the loss penalty is the penalty per customer times the number of arrivals
   that are delayed (served more than 10 minutes after arriving, exactly 10 not
   counting) or unserved (left without slot). *)
C6_LossPenalty ==
    Terminou =>
        /\ resultado.num_clientes_atrasados = Cardinality(AtrasadosSet)
        /\ resultado.num_clientes_nao_atendidos_final = Cardinality(NaoAtendidosSet)
        /\ resultado.custo_clientes_perdidos =
               (Cardinality(AtrasadosSet) + Cardinality(NaoAtendidosSet))
                   * resultado.penalidade_por_cliente

C6_Witness ==
    /\ Terminou
    /\ \E n \in 1..N : Servido(n) /\ EsperaIgualAoLimite(n)
    /\ AtrasadosSet # {}
    /\ NaoAtendidosSet # {}
    /\ resultado.penalidade_por_cliente # PENALIDADE_POR_CLIENTE

LimiteFuncionarios == Soma(resultado.base_team_por_tipo, TIPOS) + resultado.extra_max_total

(* C7: with a base team and an extra limit, the overstaffing penalty is
   max(0, headcount - (base total + extra)) times penalty per customer times the
   factor: one factor's worth for a headcount of limit + 1, nothing at the limit. *)
C7_Overstaffing ==
    (Terminou /\ resultado.limite) =>
        /\ resultado.custo_penal_func_extra =
               Max2(0, Headcount(turnos) - LimiteFuncionarios)
                   * resultado.penalidade_por_cliente * FatorPenalFuncExtra
        /\ Headcount(turnos) = LimiteFuncionarios + 1 =>
               resultado.custo_penal_func_extra =
                   resultado.penalidade_por_cliente * FatorPenalFuncExtra
        /\ Headcount(turnos) = LimiteFuncionarios => resultado.custo_penal_func_extra = 0

C7_Witness ==
    /\ Terminou
    /\ resultado.limite
    /\ resultado.extra_max_total > 0
    /\ Soma(resultado.base_team_por_tipo, TIPOS) > 0
    /\ Headcount(turnos) = LimiteFuncionarios + 1
    /\ resultado.custo_penal_func_extra = TicketMedio * FatorPenalFuncExtra

(* C8: the labor cost is, over the tiers, the hourly wage of the tier times the
   headcount of the tier added over the hours of the window. *)
C8_LaborCost ==
    Terminou =>
        resultado.custo_funcionarios =
            Soma([tipo \in TIPOS |-> CUSTO_HORA_TIPOS[tipo] * SeqSum(escala_por_hora[tipo])],
                 TIPOS)

C8_Witness ==
    /\ Terminou
    /\ resultado.custo_funcionarios > 0
    /\ \A tipo \in TIPOS : SeqSum(escala_por_hora[tipo]) > 0

(* C9: the objective value is the sum of the three reported components. *)
C9_Total ==
    Terminou =>
        resultado.valor_objetivo =
            resultado.custo_funcionarios + resultado.custo_clientes_perdidos
                + resultado.custo_penal_func_extra

C9_Witness ==
    /\ Terminou
    /\ resultado.custo_funcionarios > 0
    /\ resultado.custo_clientes_perdidos > 0
    /\ resultado.custo_penal_func_extra > 0

TurnosZerados ==
    \A tipo \in DOMAIN turnos : \A k \in 1..Len(turnos[tipo]) : turnos[tipo][k].quantidade = 0

(* C10: for a schedule without shifts or with only shifts of quantidade 0, the
   evaluation ends with every arrival unserved and none delayed, a loss penalty of
   arrivals times penalty per customer, no labor cost and no overstaffing penalty. *)
C10_ZeroSchedule ==
    (Terminou /\ TurnosZerados) =>
        /\ resultado.num_clientes_nao_atendidos_final = N
        /\ resultado.num_clientes_atrasados = 0
        /\ resultado.custo_clientes_perdidos = N * resultado.penalidade_por_cliente
        /\ resultado.custo_funcionarios = 0
        /\ resultado.custo_penal_func_extra = 0

C10_Witness ==
    /\ Terminou
    /\ TurnosZerados
    /\ DOMAIN turnos # {}
    /\ N > 0
    /\ resultado.limite
    /\ resultado.custo_clientes_perdidos = N * TicketMedio

----------------------------------------------------------------------------
(* The worked example: a window of two hours, one junior in the first hour only,
   arrivals at minutes 0, 15, 30, 45 and 70, evaluated to the end. *)
ExemploC11 ==
    /\ Terminou
    /\ horas = <<HoraInicio, HoraInicio + 1>>
    /\ DOMAIN turnos = {"junior"}
    /\ escala_por_hora["junior"] = <<1, 0>>
    /\ arrival_times_min = ChegadasExemplo

(* Arrival n has the slot at minute m. *)
SlotEm(n, m) ==
    /\ Servido(n)
    /\ service_times_client_min[n].num = m * service_times_client_min[n].den

(* Arrival n waits m minutes for its slot. *)
EsperaDe(n, m) ==
    LET s == service_times_client_min[n]
        a == arrival_times_min[n]
    IN  s.num * a.den - a.num * s.den = m * s.den * a.den

(* C11 as stated: in the worked example the arrivals at 0 and 15 get the slots at 0
   and 30 and wait 0 and 15 minutes, the arrivals at 45 and 70 are unserved, the
   labor cost is 30 and the loss penalty is the unserved count times the penalty
   per customer. *)
C11_ExampleUnservedOnly ==
    ExemploC11 =>
        /\ SlotEm(1, 0) /\ EsperaDe(1, 0)
        /\ SlotEm(2, 30) /\ EsperaDe(2, 15)
        /\ ~Servido(4) /\ ~Servido(5)
        /\ resultado.custo_funcionarios = 30
        /\ resultado.custo_clientes_perdidos =
               resultado.num_clientes_nao_atendidos_final * resultado.penalidade_por_cliente

(* C11 amended: in the worked example the arrivals at 0 and 15 get the slots at 0
   and 30 and wait 0 and 15 minutes, the arrivals at 30, 45 and 70 are unserved, the
   arrival at 15 is delayed, the labor cost is 30 and the loss penalty is
   (3 unserved + 1 delayed) times the penalty per customer. *)
C11_Example ==
    ExemploC11 =>
        /\ SlotEm(1, 0) /\ EsperaDe(1, 0)
        /\ SlotEm(2, 30) /\ EsperaDe(2, 15)
        /\ ~Servido(3) /\ ~Servido(4) /\ ~Servido(5)
        /\ resultado.num_clientes_nao_atendidos_final = 3
        /\ resultado.num_clientes_atrasados = 1
        /\ resultado.custo_funcionarios = 30
        /\ resultado.custo_clientes_perdidos = 4 * resultado.penalidade_por_cliente

C11_Witness ==
    /\ ExemploC11
    /\ Len(service_times_min) = 2
    /\ resultado.custo_clientes_perdidos > 0

(* Shift k of tier tipo covers the hour of index t. *)
Cobre(tipo, k, t) ==
    /\ turnos[tipo][k].inicio <= horas[t]
    /\ horas[t] < turnos[tipo][k].inicio + duracao_turno_horas

(* C12: the compiled table has one vector of the length of the window for every
   tier of the schedule and every known tier; for a tier of the schedule the entry
   of hour h is the sum of the quantities of its shifts with
   start <= h < start + duration, and a known tier without shifts has zeros. *)
C12_Compile ==
    (entrada = "avaliar_turnos" /\ pc # "compilar") =>
        /\ DOMAIN escala_por_hora = DOMAIN turnos \cup TIPOS
        /\ \A tipo \in DOMAIN escala_por_hora :
              /\ Len(escala_por_hora[tipo]) = T
              /\ \A t \in 1..T :
                    escala_por_hora[tipo][t] =
                        IF tipo \in DOMAIN turnos
                        THEN Soma([k \in 1..Len(turnos[tipo]) |->
                                      IF Cobre(tipo, k, t)
                                      THEN turnos[tipo][k].quantidade ELSE 0],
                                  1..Len(turnos[tipo]))
                        ELSE 0

C12_Witness ==
    /\ entrada = "avaliar_turnos"
    /\ pc # "compilar"
    /\ "senior" \notin DOMAIN turnos
    /\ \E tipo \in DOMAIN turnos : \E t \in 1..T :
          /\ Len(turnos[tipo]) = 2
          /\ Cobre(tipo, 1, t) /\ Cobre(tipo, 2, t)
          /\ turnos[tipo][1].quantidade > 0 /\ turnos[tipo][2].quantidade > 0
          /\ turnos[tipo][1].inicio < HoraInicio
          /\ escala_por_hora[tipo][t] =
                 turnos[tipo][1].quantidade + turnos[tipo][2].quantidade

(* The tiers of the schedule that have no productivity. *)
TiposDesconhecidos == DOMAIN turnos \ DOMAIN produtividade_tipos

(* C19: a schedule with a tier that has no productivity is evaluated to the end,
   and the capacity of every hour is the productivity-weighted headcount of the
   known tiers alone. *)
C19_UnknownTier ==
    (entrada = "avaliar_turnos" /\ TiposDesconhecidos # {}
        /\ pc \notin {"compilar", "capacidade"}) =>
        /\ \A t \in 1..T : capacidade_por_hora[t] * ProdDen = ProdutoTotal(t)
        /\ Terminou => resultado.total_funcionarios = Headcount(turnos)

C19_Witness ==
    /\ Terminou
    /\ \E tipo \in TiposDesconhecidos : \E t \in 1..T :
          /\ escala_por_hora[tipo][t] > 0
          /\ capacidade_por_hora[t] = 0
    /\ \E t \in 1..T : capacidade_por_hora[t] > 0

----------------------------------------------------------------------------
(* Vocabulary of the properties of the panel *)

Config(chave) == TabelaCenarios[chave]

SeedFixa(chave) == chave \in DOMAIN TabelaCenarios /\ Config(chave).seed_demanda # None

JanelaVazia(chave) ==
    chave \in DOMAIN TabelaCenarios /\ Config(chave).hora_fim <= Config(chave).hora_inicio

TaxaNegativa(chave) ==
    chave \in DOMAIN TabelaCenarios
        /\ (Config(chave).media_pico < 0 \/ Config(chave).media_vale < 0)

TipoDesconhecidoNaBase(chave) ==
    chave \in DOMAIN TabelaCenarios
        /\ \E t \in DOMAIN Config(chave).base_team_por_tipo : t \notin TIPOS

(* The call just made generates the data of a scenario. *)
ChamadaGera == chamada.op \in {"obter_dados_cenario", "avaliar_escala_usuario"}

(* The archive has no entry for the key and the method. *)
Ausente(chave, metodo) ==
    \/ arquivo.estado # "ok"
    \/ chave \notin DOMAIN arquivo.dados
    \/ metodo \notin DOMAIN arquivo.dados[chave]

(* C13: any two generations for the same key of a scenario with a seed, whatever
   was generated before or between them, give the same customers per hour, the
   same arrival times and the same hour indices. *)
C13_Determinism ==
    \A m, n \in 1..Len(geradas) :
        (geradas[m].chave = geradas[n].chave /\ SeedFixa(geradas[m].chave)) =>
            /\ geradas[m].dados.clientes_por_hora = geradas[n].dados.clientes_por_hora
            /\ geradas[m].dados.arrival_times_min = geradas[n].dados.arrival_times_min
            /\ geradas[m].dados.arrival_hour_index = geradas[n].dados.arrival_hour_index

C13_Witness ==
    \E m, p, n \in 1..Len(geradas) :
        /\ m < p /\ p < n
        /\ geradas[m].chave = geradas[n].chave
        /\ geradas[m].chave \in DOMAIN CENARIOS
        /\ geradas[p].chave = "sem_seed"
        /\ Len(geradas[n].dados.arrival_times_min) > 1

(* C15 as stated: the data of a scenario that schedules are evaluated against are
   generated once in the session. *)
C15_GeneratedOnce ==
    \A chave \in DOMAIN CENARIOS :
        (\E n \in 1..Len(avaliadas) : avaliadas[n].chave = chave) => geracoes[chave] <= 1

(* C16: the evaluations leave the module-level productivity table as it was, and
   any two evaluations of the same schedule on the same scenario data, whatever was
   evaluated between them, give the same score in every component. *)
C16_Idempotent ==
    /\ produtividade_tipos = PRODUTIVIDADE_TIPOS
    /\ \A m, n \in 1..Len(avaliadas) :
          (/\ avaliadas[m].chave = avaliadas[n].chave
           /\ avaliadas[m].turnos = avaliadas[n].turnos
           /\ avaliadas[m].arrival_times_min = avaliadas[n].arrival_times_min) =>
              avaliadas[m].resultado = avaliadas[n].resultado

C16_Witness ==
    \E m, p, n \in 1..Len(avaliadas) :
        /\ m < p /\ p < n
        /\ avaliadas[m].chave = avaliadas[n].chave
        /\ avaliadas[m].turnos = avaliadas[n].turnos
        /\ avaliadas[p].turnos # avaliadas[m].turnos
        /\ DOMAIN avaliadas[m].turnos # {}
        /\ avaliadas[n].resultado.valor_objetivo > 0

(* C17: a generation for a configuration with hora_fim <= hora_inicio raises
   ValueError and returns nothing: no data of such a configuration is ever logged
   or evaluated. *)
C17_EmptyWindow ==
    /\ (ChamadaGera /\ JanelaVazia(chamada.chave)) =>
           /\ retorno.erro = "ValueError"
           /\ chamada.op = "obter_dados_cenario" => retorno.valor = SemDados
    /\ \A n \in 1..Len(geradas) : ~JanelaVazia(geradas[n].chave)
    /\ \A n \in 1..Len(avaliadas) : ~JanelaVazia(avaliadas[n].chave)

C17_Witness ==
    /\ ChamadaGera
    /\ JanelaVazia(chamada.chave)
    /\ retorno.erro = "ValueError"
    /\ Len(geradas) > 0

(* C18 as stated: a call for a configuration with a negative rate, or with a base
   team that names a tier without productivity, ends in an error, and no schedule
   is ever evaluated against such a configuration. *)
C18_Rejected ==
    /\ (ChamadaGera /\ (TaxaNegativa(chamada.chave) \/ TipoDesconhecidoNaBase(chamada.chave)))
           => retorno.erro # ""
    /\ \A n \in 1..Len(avaliadas) :
          ~(TaxaNegativa(avaliadas[n].chave) \/ TipoDesconhecidoNaBase(avaliadas[n].chave))

(* C20: a call of obter_escala_otima that finds no entry in the archive (no file,
   no JSON, no key, no method) raises ValueError without having generated or
   evaluated anything, and a call of avaliar_escala_usuario does not open the
   archive. *)
C20_MissingArchive ==
    [][num_chamadas' = num_chamadas + 1 =>
          /\ (chamada'.op = "obter_escala_otima" /\ Ausente(chamada'.chave, chamada'.metodo))
                 => /\ retorno'.erro = "ValueError"
                    /\ rng' = rng
                    /\ geracoes' = geracoes
                    /\ geradas' = geradas
                    /\ avaliadas' = avaliadas
          /\ chamada'.op = "avaliar_escala_usuario"
                 => (leituras' = leituras /\ arquivo' = arquivo)]_vars

C20_Witness ==
    /\ chamada.op = "obter_escala_otima"
    /\ retorno.erro = "ValueError"
    /\ arquivo.estado = "ok"
    /\ chamada.chave \in DOMAIN arquivo.dados
    /\ leituras = 1
    /\ Len(avaliadas) = 2

(* What the call of thread th returns when nothing else runs. *)
Sozinho(th) ==
    IF threads[th].op = "carregar_cenario"
    THEN DadosDoCenario(threads[th].chave)
    ELSE LET d == DadosDoCenario(threads[th].chave)
             c == Config(threads[th].chave)
         IN  avaliar_turnos(d.horas, d.arrival_times_min, threads[th].turnos,
                            PRODUTIVIDADE_TIPOS, c.ticket_medio,
                            c.base_team_por_tipo, c.extra_max_total)

(* C14 as stated: every call that has ended in a thread, whatever ran at the same
   time and however the steps were interleaved, returned what it returns when run
   alone. *)
C14_SameAsAlone ==
    \A th \in DOMAIN threads :
        threads[th].pc = "fim" =>
            (threads[th].erro = "" /\ threads[th].retorno = Sozinho(th))

----------------------------------------------------------------------------
(* The slots that were neither given nor passed over when the pointer is at k. *)
SlotsLivres(k) == (k + 1)..Len(service_times_min)

(* The earliest of the slots with indices in S. *)
MaisCedo(S) ==
    CHOOSE x \in S : \A y \in S : MenorIgual(service_times_min[x], service_times_min[y])

(* C21: every step of the FIFO pass takes the next arrival of the array; among the
   slots not yet given or passed over it gives the arrival the earliest one that is
   not before the arrival; every slot in front of that one is strictly earlier than
   the arrival and is passed over for good, as is the slot given; a slot at exactly
   the arrival time is given with a wait of 0; when no such slot is left the
   arrival stays without slot and no slot is left for any later arrival.  The
   slots given to the earlier arrivals are not touched. *)
C21_FifoStep ==
    [][(pc = "fila" /\ i' = i + 1) =>
          LET a == arrival_times_min[i + 1]
              aptos == {k \in SlotsLivres(j) : MenorIgual(a, service_times_min[k])}
          IN  /\ Len(service_times_client_min') = i + 1
              /\ \A n \in 1..i : service_times_client_min'[n] = service_times_client_min[n]
              /\ IF aptos = {}
                 THEN /\ IsNaN(service_times_client_min'[i + 1])
                      /\ j' = Len(service_times_min)
                 ELSE LET k == MaisCedo(aptos)
                      IN  /\ service_times_client_min'[i + 1] = service_times_min[k]
                          /\ j' = k
                          /\ \A d \in SlotsLivres(j) :
                                d < k => Menor(service_times_min[d], a)
                          /\ (service_times_min[k].num * a.den = a.num * service_times_min[k].den)
                                 => ~Atrasado(service_times_client_min'[i + 1], a)]_vars

(* A finished pass in which one arrival got a slot at exactly its arrival time, a
   slot was passed over without being given, and one arrival was left without. *)
C21_Witness ==
    /\ pc = "fim"
    /\ entrada = "simular_fila_eventos"
    /\ \E n \in 1..N :
          /\ Servido(n)
          /\ service_times_client_min[n].num * arrival_times_min[n].den
                 = arrival_times_min[n].num * service_times_client_min[n].den
    /\ j > sim.num_atendidos
    /\ sim.clientes_nao_atendidos_apos_ultimo_slot > 0

----------------------------------------------------------------------------
(* Slots of the day that lie inside the hour of index t, [60 (t - 1), 60 t). *)
SlotsDaHora(t) ==
    {k \in 1..Len(service_times_min) :
        /\ service_times_min[k].num >= (t - 1) * 60 * service_times_min[k].den
        /\ service_times_min[k].num < t * 60 * service_times_min[k].den}

(* Capacity of the hours in front of the hour of index t. *)
CapacidadeAntes(t) == SeqSum(SubSeq(capacidade_por_hora, 1, t - 1))

(* C22: once the slots are built, an hour with capacity c > 0 has exactly c slots,
   the k-th of them (k = 0..c-1) at 60 (t - 1) + 60 k / c minutes, all inside the
   hour and the first at its start; an hour with capacity 0 has none; the slots of
   the day are in increasing time order, hour after hour, and there are as many as
   the capacities of the hours add up to. *)
C22_Slots ==
    pc \notin {"compilar", "capacidade"} =>
        /\ Len(service_times_min) = SeqSum(capacidade_por_hora)
        /\ \A k \in 1..(Len(service_times_min) - 1) :
              Menor(service_times_min[k], service_times_min[k + 1])
        /\ \A t \in 1..T :
              LET c == capacidade_por_hora[t]
              IN  /\ c >= 0
                  /\ Cardinality(SlotsDaHora(t)) = c
                  /\ SlotsDaHora(t) = (CapacidadeAntes(t) + 1)..(CapacidadeAntes(t) + c)
                  /\ \A k \in 0..(c - 1) :
                        LET s == service_times_min[CapacidadeAntes(t) + k + 1]
                        IN  s.num * c = ((t - 1) * 60 * c + 60 * k) * s.den

(* Slots built for a day with an hour without capacity in front of an hour whose
   capacity does not divide 60. *)
C22_Witness ==
    /\ pc = "fim"
    /\ \E t, u \in 1..T :
          /\ t < u
          /\ capacidade_por_hora[t] = 0
          /\ capacidade_por_hora[u] > 2
          /\ 60 % capacidade_por_hora[u] # 0
    /\ Len(service_times_min) > 2

----------------------------------------------------------------------------
(* Customers drawn for the hours in front of the hour of index t. *)
ClientesAntes(clientes, t) == SeqSum(SubSeq(clientes, 1, t - 1))

(* The data d of a scenario have their arrivals laid out hour by hour. *)
ChegadasBemFormadas(d) ==
    LET a == d.arrival_times_min
        h == d.arrival_hour_index
        c == d.clientes_por_hora
    IN  /\ Len(c) = Len(d.horas)
        /\ Len(a) = SeqSum(c)
        /\ Len(h) = Len(a)
        /\ \A k \in 1..(Len(a) - 1) : Menor(a[k], a[k + 1])
        /\ \A k \in 1..Len(a) :
              /\ h[k] * 60 * a[k].den <= a[k].num
              /\ a[k].num < (h[k] + 1) * 60 * a[k].den
        /\ \A t \in 1..Len(c) :
              /\ Cardinality({k \in 1..Len(a) : h[k] = t - 1}) = c[t]
              /\ \A k \in 0..(c[t] - 1) :
                    LET x == a[ClientesAntes(c, t) + k + 1]
                    IN  x.num * c[t] = ((t - 1) * 60 * c[t] + 60 * k) * x.den

(* C23: in all data the generator returns, an hour with n > 0 customers has
   exactly n arrivals, the k-th of them (k = 0..n-1) at the hour start plus
   60 k / n minutes; an hour with 0 customers has none; the arrivals of the day are
   strictly increasing in time, the hour index of each is floor(time / 60), and
   the arrivals with hour index t are as many as clientes_por_hora[t]. *)
C23_Arrivals ==
    /\ \A n \in 1..Len(geradas) : ChegadasBemFormadas(geradas[n].dados)
    /\ (chamada.op = "obter_dados_cenario" /\ retorno.erro = "") =>
           ChegadasBemFormadas(retorno.valor)

(* Data were generated with an hour without customers in front of an hour with
   more than one, and data with more than one customer in every hour. *)
C23_Witness ==
    /\ \E n \in 1..Len(geradas) :
          LET c == geradas[n].dados.clientes_por_hora
          IN  c[1] = 0 /\ c[2] > 1 /\ Len(geradas[n].dados.arrival_times_min) = c[2]
    /\ \E n \in 1..Len(geradas) :
          \A t \in 1..NumHorasPainel : geradas[n].dados.clientes_por_hora[t] > 1

----------------------------------------------------------------------------
(* Arrivals that have come before the end of the hour of index t and are still
   waiting then: without slot, or with a slot at or after that end. *)
EsperandoNoFimDe(t) ==
    {n \in 1..N :
        /\ arrival_times_min[n].num < t * 60 * arrival_times_min[n].den
        /\ \/ ~Servido(n)
           \/ service_times_client_min[n].num >= t * 60 * service_times_client_min[n].den}

(* C24: in what the simulation returns, fila_fim_hora[t] is the number of arrivals
   with time before the end of hour t that have no slot or a slot at or after that
   end; fila_inicio_hora is 0 for the first hour and fila_fim_hora of the hour
   before for the others; backlog_acumulado_por_hora[t] is the sum of
   fila_fim_hora over the hours up to t. *)
C24_QueueSnapshots ==
    SimulacaoFeita =>
        /\ Len(sim.fila_fim_hora) = T
        /\ Len(sim.fila_inicio_hora) = T
        /\ Len(sim.backlog_acumulado_por_hora) = T
        /\ \A t \in 1..T :
              /\ sim.fila_fim_hora[t] = Cardinality(EsperandoNoFimDe(t))
              /\ sim.fila_inicio_hora[t] = IF t = 1 THEN 0 ELSE sim.fila_fim_hora[t - 1]
              /\ sim.backlog_acumulado_por_hora[t] =
                     Soma([u \in 1..t |-> sim.fila_fim_hora[u]], 1..t)

(* A finished simulation in which an arrival of the first hour got the slot at
   exactly the end of that hour, and an arrival was left waiting at the close. *)
C24_Witness ==
    /\ SimulacaoFeita
    /\ \E n \in 1..N :
          /\ Servido(n)
          /\ Menor(arrival_times_min[n], Minutos(60))
          /\ service_times_client_min[n] = Minutos(60)
    /\ sim.fila_fim_hora[1] > 0
    /\ sim.fila_fim_hora[T] > 0
    /\ sim.backlog_acumulado_por_hora[T] > sim.fila_fim_hora[T]

----------------------------------------------------------------------------
(* C25: for the arrivals of a generated scenario and any schedule, in every hour
   the queue at the end is the queue at the start plus the customers of the hour
   minus the customers served in the hour, and the queue at the end of the last
   hour is the number of arrivals left without slot. *)
C25_FlowBalance ==
    (SimulacaoFeita /\ arrival_times_min = ChegadasDoCenario(clientes_por_hora)) =>
        /\ \A t \in 1..T :
              sim.fila_fim_hora[t] =
                  sim.fila_inicio_hora[t] + clientes_por_hora[t]
                      - sim.clientes_atendidos_por_hora[t]
        /\ sim.fila_fim_hora[T] = sim.clientes_nao_atendidos_apos_ultimo_slot

(* An evaluated schedule under which a queue carried over from one hour is served
   in a later hour, beyond the customers of that hour, and arrivals are left
   without slot at the close. *)
C25_Witness ==
    /\ Terminou
    /\ entrada = "avaliar_turnos"
    /\ \E t \in 2..T :
          /\ sim.fila_inicio_hora[t] > 0
          /\ sim.clientes_atendidos_por_hora[t] > clientes_por_hora[t]
          /\ clientes_por_hora[t] > 0
    /\ sim.fila_fim_hora[T] > 0
    /\ sim.num_atendidos > 0

----------------------------------------------------------------------------
(* Arrivals that hold the slot of index k. *)
DonosDoSlot(k) ==
    {n \in 1..Len(service_times_client_min) :
        Servido(n) /\ service_times_client_min[n] = service_times_min[k]}

(* C26: at every point of the FIFO pass a slot is held by at most one arrival;
   when the simulation has run, the customers served in an hour are at most the
   capacity of the hour, they add up over the hours to the number of served
   arrivals, and that number is at most the capacity of the day. *)
C26_SlotOnce ==
    /\ pc \notin {"compilar", "capacidade"} =>
           \A k \in 1..Len(service_times_min) : Cardinality(DonosDoSlot(k)) <= 1
    /\ SimulacaoFeita =>
           /\ \A t \in 1..T :
                 sim.clientes_atendidos_por_hora[t] <= capacidade_por_hora[t]
           /\ SeqSum(sim.clientes_atendidos_por_hora) = sim.num_atendidos
           /\ sim.num_atendidos = Cardinality({n \in 1..N : Servido(n)})
           /\ sim.num_atendidos <= SeqSum(capacidade_por_hora)

(* A finished simulation in which the arrivals took every slot of an hour and an
   arrival was left without, while slots of the day were passed over. *)
C26_Witness ==
    /\ SimulacaoFeita
    /\ \E t \in 1..T :
          /\ capacidade_por_hora[t] > 1
          /\ sim.clientes_atendidos_por_hora[t] = capacidade_por_hora[t]
    /\ sim.clientes_nao_atendidos_apos_ultimo_slot > 0
    /\ sim.num_atendidos < SeqSum(capacidade_por_hora)

----------------------------------------------------------------------------
(* C27: at every point of the FIFO pass, if an arrival was left without slot the
   pointer stands at the end of the slots and every arrival processed after that
   one was left without slot too: the arrivals without slot are the last ones of
   the arrival array processed so far. *)
C27_UnservedSuffix ==
    pc \notin {"compilar", "capacidade"} =>
        /\ (\E m \in 1..Len(service_times_client_min) : ~Servido(m)) =>
               j = Len(service_times_min)
        /\ \A m, n \in 1..Len(service_times_client_min) :
              (m < n /\ ~Servido(m)) => ~Servido(n)

(* An arrival was left without slot, and the one after it too although a slot of
   the day is not before its arrival time. *)
C27_Witness ==
    /\ pc = "fim"
    /\ \E m, n \in 1..N :
          /\ m < n
          /\ ~Servido(m) /\ ~Servido(n)
          /\ \E k \in 1..Len(service_times_min) :
                MenorIgual(arrival_times_min[n], service_times_min[k])

----------------------------------------------------------------------------
(* C28: at every point of the FIFO pass the slot of a served arrival is not before
   its arrival time; when the simulation has run, the arrivals counted as delayed
   are served arrivals, none of them is among the arrivals without slot, and the
   delayed and the unserved together are at most the arrivals. *)
C28_DelayedOrUnserved ==
    /\ pc \notin {"compilar", "capacidade"} =>
           \A n \in 1..Len(service_times_client_min) :
               Servido(n) => MenorIgual(arrival_times_min[n], service_times_client_min[n])
    /\ SimulacaoFeita =>
           /\ sim.num_clientes_atrasados = Cardinality(AtrasadosSet)
           /\ sim.clientes_nao_atendidos_apos_ultimo_slot = Cardinality(NaoAtendidosSet)
           /\ AtrasadosSet \cap NaoAtendidosSet = {}
           /\ sim.num_clientes_atrasados <= sim.num_atendidos
           /\ sim.num_clientes_atrasados + sim.clientes_nao_atendidos_apos_ultimo_slot <= N

(* A finished simulation with a delayed arrival and an arrival without slot and no
   other arrival. *)
C28_Witness ==
    /\ pc = "fim"
    /\ sim.num_clientes_atrasados > 0
    /\ sim.clientes_nao_atendidos_apos_ultimo_slot > 0
    /\ sim.num_clientes_atrasados + sim.clientes_nao_atendidos_apos_ultimo_slot = N

----------------------------------------------------------------------------
(* Evaluation e of the log was made without overstaffing penalty. *)
SemExcesso(e) == e.resultado.custo_penal_func_extra = 0

(* C30: every evaluation made by avaliar_escala_usuario or obter_escala_otima
   charges the ticket of the scenario per lost customer; in its summary the served
   and the lost customers add up to the arrivals, and the cash after payroll plus
   the objective value is arrivals times ticket plus the overstaffing penalty; of
   two evaluations on the same arrivals of a scenario without overstaffing
   penalty, the one with the lower objective value has the higher cash after
   payroll. *)
C30_Summary ==
    /\ \A n \in 1..Len(avaliadas) :
          LET e == avaliadas[n]
              total == Len(e.arrival_times_min)
              ticket == Config(e.chave).ticket_medio
          IN  /\ e.resultado.penalidade_por_cliente = ticket
              /\ e.resumo.num_clientes_total = total
              /\ e.resumo.atendidos >= 0 /\ e.resumo.perdidos >= 0
              /\ e.resumo.atendidos + e.resumo.perdidos = total
              /\ e.resumo.caixa_apos_folha + e.resumo.valor_objetivo =
                     total * ticket + e.resultado.custo_penal_func_extra
    /\ \A m, n \in 1..Len(avaliadas) :
          (/\ avaliadas[m].chave = avaliadas[n].chave
           /\ avaliadas[m].arrival_times_min = avaliadas[n].arrival_times_min
           /\ SemExcesso(avaliadas[m]) /\ SemExcesso(avaliadas[n])
           /\ avaliadas[m].resumo.valor_objetivo < avaliadas[n].resumo.valor_objetivo) =>
              avaliadas[m].resumo.caixa_apos_folha > avaliadas[n].resumo.caixa_apos_folha
    /\ (chamada.op \in {"avaliar_escala_usuario", "obter_escala_otima"} /\ retorno.erro = "") =>
           /\ Len(avaliadas) > 0
           /\ retorno.valor.resumo = avaliadas[Len(avaliadas)].resumo

(* The session has evaluated a schedule of the user and two archived schedules on
   the same arrivals: one evaluation with delayed and served customers and a
   payroll, one of the user with unserved customers, one with an overstaffing
   penalty, and two without such penalty that differ in objective value. *)
C30_Witness ==
    /\ \E n \in 1..Len(avaliadas) :
          /\ avaliadas[n].resultado.num_clientes_atrasados > 0
          /\ avaliadas[n].resumo.atendidos > 0
          /\ avaliadas[n].resumo.custo_funcionarios > 0
    /\ \E n \in 1..Len(avaliadas) :
          /\ avaliadas[n].origem = "usuario"
          /\ avaliadas[n].resultado.num_clientes_nao_atendidos_final > 0
    /\ \E n \in 1..Len(avaliadas) :
          /\ avaliadas[n].origem # "usuario"
          /\ avaliadas[n].resultado.custo_penal_func_extra > 0
    /\ \E m, n \in 1..Len(avaliadas) :
          /\ avaliadas[m].chave = avaliadas[n].chave
          /\ avaliadas[m].arrival_times_min = avaliadas[n].arrival_times_min
          /\ SemExcesso(avaliadas[m]) /\ SemExcesso(avaliadas[n])
          /\ avaliadas[m].resumo.valor_objetivo < avaliadas[n].resumo.valor_objetivo

----------------------------------------------------------------------------
(* The worker list the session keeps; none before the first reset. *)
ListaDaSessao ==
    IF "funcionarios" \in DOMAIN session_state THEN session_state.funcionarios ELSE <<>>

(* Workers of tier t in the list of the session. *)
NaLista(t) ==
    Cardinality({n \in 1..Len(ListaDaSessao) : ListaDaSessao[n].tipo = t})

(* The list is within the limits of a configuration: the workers beyond the base
   team, added over the tiers, are at most extra_max_total, and so the workers are
   at most base total + extra_max_total. *)
DentroDoLimite(config) ==
    /\ Soma([t \in TIPOS |-> Max2(0, NaLista(t) - config.base_team_por_tipo[t])], TIPOS)
           <= config.extra_max_total
    /\ Len(ListaDaSessao) <= Soma(config.base_team_por_tipo, TIPOS) + config.extra_max_total

(* The list is within the limits of the scenario chosen in the sidebar. *)
LimiteDoCenarioEscolhido ==
    scenario_key # "" => DentroDoLimite(SCENARIO_LABEL_MAP[scenario_key])

(* The list is within the limits of the scenario the session keeps. *)
LimiteDoCenarioDaSessao ==
    "scenario_key" \in DOMAIN session_state =>
        DentroDoLimite(SCENARIO_LABEL_MAP[session_state.scenario_key])

(* When the page was drawn, the schedule of the user was scored with all the
   workers of the list and without overstaffing penalty. *)
SemPenalidadeDeExcesso ==
    PaginaDesenhada =>
        /\ retorno.valor.resultado.total_funcionarios = Len(ListaDaSessao)
        /\ retorno.valor.resultado.num_funcionarios_excesso = 0
        /\ retorno.valor.resultado.custo_penal_func_extra = 0

(* C29 as stated: after every event of the page the list is within the limits of
   the scenario chosen in the sidebar and the schedule of the user is scored
   without overstaffing penalty, and every event that changes the scenario chosen
   leaves the list empty. *)
C29_EverySwitchResets ==
    [][/\ LimiteDoCenarioEscolhido'
       /\ SemPenalidadeDeExcesso'
       /\ scenario_key' # scenario_key => ListaDaSessao' = <<>>]_vars

(* C29 amended: after every event of the page (a choice of scenario, a click on an
   add button or on an X, a slider move, the comparison toggle) the list is within
   the limits of the scenario the session keeps, and the schedule of the user is
   scored without overstaffing penalty; a run that draws the page leaves the
   session on the scenario chosen, and leaves the list empty when that is not the
   scenario the session was on; a run that ends in the error of a missing archived
   schedule leaves the session, and with it the list, as it was. *)
C29_WorkerLimit ==
    [][/\ LimiteDoCenarioDaSessao'
       /\ SemPenalidadeDeExcesso'
       /\ retorno'.erro = "" =>
              /\ "scenario_key" \in DOMAIN session_state'
              /\ session_state'.scenario_key = scenario_key'
              /\ ("scenario_key" \notin DOMAIN session_state
                    \/ session_state.scenario_key # scenario_key')
                     => (ListaDaSessao' = <<>> /\ session_state'.next_func_id = 1)
       /\ retorno'.erro # "" => session_state' = session_state]_vars

(* The page is drawn for the scenario with extra hires, the list holds as many
   workers beyond the base team as the scenario allows, in two tiers, no add
   button of a tier in the list is enabled, and one worker was moved off the first
   start hour. *)
C29_Witness ==
    /\ PaginaDesenhada
    /\ LET config == SCENARIO_LABEL_MAP[scenario_key]
       IN  /\ config.extra_max_total > 1
           /\ ExtrasUsados(ListaDaSessao, config.base_team_por_tipo) = config.extra_max_total
           /\ Cardinality({t \in TIPOS : NaLista(t) > config.base_team_por_tipo[t]}) > 1
           /\ \A t \in TIPOS :
                 NaLista(t) > 0 => capacidade_restante(t, ListaDaSessao, config) = 0
           /\ \E n \in 1..Len(ListaDaSessao) : ListaDaSessao[n].inicio # config.hora_inicio
    /\ retorno.valor.resultado.total_funcionarios = Len(ListaDaSessao)

====
